---- MODULE Spec2Model ----
(***************************************************************************)
(* Model of the uboot_tool serial conversation engine: the line framer     *)
(* (LinesStream, src/src/lib.rs), a per-line wait on it, the transport     *)
(* task with its handles and subscriptions (UBootClient::new), the login   *)
(* (UBootClient::shell_presence) and the MTD partition dump                *)
(* (UBootClient::dump_mtd_part) with the parsers they use.                 *)
(*                                                                         *)
(* Text is a sequence of one-character strings, a payload a sequence of    *)
(* such characters, binary data a sequence of numbers 0..255.              *)
(* Time is counted in milliseconds and advances in steps of RX_DELAY.      *)
(***************************************************************************)
EXTENDS Integers, Sequences, FiniteSets, TLC

VARIABLES
    \* ---- LinesStream (lib.rs 589-681) ----
    stream,        \* chunks waiting in the subscription channel (the upstream)
    streamEnded,   \* the upstream's sender side is closed
    leftover,      \* LinesStream.leftover : VecDeque<Payload>
    sleep,         \* LinesStream.sleep : milliseconds left until the deadline
    finished,      \* poll_next has returned Ready(None)
    \* history of the framer, used to state the properties
    emitted,       \* lines returned by poll_next so far, in order
    consumed,      \* concatenation of the chunks poll_next has taken, with a
                   \* CUT mark where a chunk started a new entry after a flush
    nChunks,       \* number of chunks the upstream has produced
    nTaken,        \* number of chunks poll_next has taken
    sinceChunk,    \* milliseconds since poll_next last took a chunk
    tookEmpty,     \* poll_next has taken an empty chunk
    lastPoll,      \* what the most recent poll_next did
    \* ---- UBootClient::dump_mtd_part (lib.rs 423-490) and its caller ----
    device,        \* what the device on the serial line may answer
    region,        \* the MemRegion being dumped
    address,       \* the RAM address the partition is staged at
    pc,            \* where dump_mtd_part is
    count,         \* spi_flash_cmd: terminated lines seen
    checksum,      \* the reference checksum returned by calc_crc32
    crcLine,       \* the console line the checksum was parsed from
    hasher,        \* crc32fast::Hasher
    off,           \* bytes received so far
    written,       \* the sink: bytes written so far
    progress,      \* progress channel: values sent and not yet received
    rxOpen,        \* the progress receiver has not been dropped
    lastProgress,  \* the last value accepted by the progress channel
    cancelled,     \* a progress send failed: the loop was left by break
    checked,       \* the final checks (lib.rs 481-489) were reached
    sent,          \* payloads handed to the transport, in order
    transportUp,   \* the transport task is running
    result,        \* what dump_mtd_part returned
    busy,          \* the command the device is executing, or "none"
    mdIn,          \* what the last wait of the dump loop returned
    \* ---- a per-line wait: timeout(TIMEOUT, lines.next()) (lib.rs 169) ----
    wait,          \* the wait in progress or the last one, with its history
    \* ---- the transport task and its clients (lib.rs 71-147) ----
    task,          \* "select", "broadcast" (inside payload_sender.send), "ended"
    endCause,      \* why the task left its loop
    mailbox,       \* control messages queued in ctl_tx / ctl_rx
    handles,       \* live clones of the client handle (of ctl_tx)
    subscribers,   \* the subscriptions in the slab
    todo,          \* subscriptions the chunk being broadcast still goes to
    blockedOn,     \* the subscription whose send is awaited, or 0
    queue,         \* per subscription: chunks sent and not yet received
    alive,         \* per subscription: its receiver has not been dropped
    nSubs,         \* subscriptions created by chunks() so far
    reads,         \* chunks read from the port so far (chunk k is read k)
    wire,          \* bytes written to the port, in order
    \* history of the transport, used to state the properties
    seen,          \* per subscription: chunks its receiver has taken, in order
    insertedAt,    \* per subscription: reads when it entered the slab, or -1
    outLog,        \* the Out payloads accepted by the mailbox, in order, each
                   \* with the subscriptions obtained before it
    outsTaken,     \* Out messages the task has taken from the mailbox
    writeFailed,   \* a write to the port has failed
    \* ---- UBootClient::shell_presence (lib.rs 157-205) ----
    shell,         \* its position, what it sent and received, its result
    \* ---- the line-reading queries (lib.rs 208-330) ----
    query,         \* the query in progress or the last one, with its history
    \* ---- parsers and formatters called on their own ----
    calc,          \* the function applied, its input and what it returned
    \* ---- the command-line program (cli main.rs 171-330) ----
    cli            \* where main and run are, the dump tasks, stderr, exit code

linesVars == <<stream, streamEnded, leftover, sleep, finished, emitted,
               consumed, nChunks, nTaken, sinceChunk, tookEmpty, lastPoll>>

dumpVars == <<device, region, address, pc, count, checksum, crcLine, hasher,
              off, written, progress, rxOpen, lastProgress, cancelled,
              checked, sent, transportUp, result, busy, mdIn>>

\* what the framer and the dump leave alone
transportVars == <<task, endCause, mailbox, handles, subscribers, todo,
                   blockedOn, queue, alive, nSubs, reads, wire, seen,
                   insertedAt, outLog, outsTaken, writeFailed>>

restVars == <<wait, transportVars, shell, query, calc, cli>>

vars == <<linesVars, dumpVars, restVars>>

----------------------------------------------------------------------------
(* Program constants                                                        *)

RX_DELAY == 50
TIMEOUT == 150

(* Bounds of the model                                                      *)

MaxChunks == 3

LF == "\n"
CR == "\r"
CUT == "CUT"

\* the chunks the serial port delivers in the model: an empty read, a piece
\* of text without separator, bare and \r-preceded separators, a complete
\* line, and a chunk that ends one line and starts the next
Chunks == { <<>>, <<"a">>, <<LF>>, <<CR, LF>>, <<"a", CR, LF>>, <<"a", LF, "a">> }

Last(s) == s[Len(s)]
----------------------------------------------------------------------------
(* LinesStream                                                              *)

\* chunk.split(|b| *b == b'\n'): the pieces between separators; always at
\* least one piece, the last one being what follows the last separator
RECURSIVE SplitFrom(_, _, _)
SplitFrom(chunk, i, cur) ==
    IF i > Len(chunk) THEN <<cur>>
    ELSE IF chunk[i] = LF THEN <<cur>> \o SplitFrom(chunk, i + 1, <<>>)
    ELSE SplitFrom(chunk, i + 1, Append(cur, chunk[i]))

SplitKeepLF(chunk) ==
    LET RECURSIVE Go(_, _)
        Go(i, cur) ==
            IF i > Len(chunk) THEN <<cur>>
            ELSE IF chunk[i] = LF THEN <<Append(cur, LF)>> \o Go(i + 1, <<>>)
            ELSE Go(i + 1, Append(cur, chunk[i]))
    IN  Go(1, <<>>)

ChunkSplit(chunk) == SplitFrom(chunk, 1, <<>>)

\* lib.rs 641-653: the first piece extends the open tail (or opens one),
\* the other pieces become new entries
PushAlways(lo, pieces) == lo \o pieces

ExtendLeftover(lo, pieces) ==
    IF lo # <<>>
    THEN [lo EXCEPT ![Len(lo)] = @ \o pieces[1]] \o Tail(pieces)
    ELSE pieces

\* lib.rs 668-677: the timer branch returns the kept entry, if any
TimerNeedsTwo(lo, timerReady) == timerReady /\ Len(lo) > 1

TimerFlushes(lo, timerReady) == timerReady /\ lo # <<>>

\* one call of poll_next as a function of the object's fields and of what the
\* upstream's poll returns ("chunk", "none" or "pending"); the result holds
\* the new fields, the value returned (out: <<line>> or <<>>), and how
PollNext(lo, slp, streamPoll, chunk) ==
    IF Len(lo) > 1
    THEN [leftover |-> Tail(lo), sleep |-> slp, out |-> <<Head(lo)>>,
          via |-> "front", took |-> FALSE, ready |-> TRUE]
    ELSE LET timerReady == slp = 0 IN
         CASE streamPoll = "chunk" ->
                LET lo2 == ExtendLeftover(lo, ChunkSplit(chunk)) IN
                IF Len(lo2) > 1
                THEN [leftover |-> Tail(lo2), sleep |-> RX_DELAY,
                      out |-> <<Head(lo2)>>, via |-> "chunk", took |-> TRUE,
                      ready |-> TRUE]
                ELSE IF TimerFlushes(lo2, timerReady)
                THEN [leftover |-> Tail(lo2), sleep |-> RX_DELAY,
                      out |-> <<Head(lo2)>>, via |-> "timer", took |-> TRUE,
                      ready |-> TRUE]
                ELSE [leftover |-> lo2, sleep |-> RX_DELAY, out |-> <<>>,
                      via |-> "pending", took |-> TRUE, ready |-> FALSE]
           [] streamPoll = "none" ->
                IF lo # <<>>
                THEN [leftover |-> Tail(lo), sleep |-> slp,
                      out |-> <<Head(lo)>>, via |-> "end", took |-> FALSE,
                      ready |-> TRUE]
                ELSE [leftover |-> lo, sleep |-> slp, out |-> <<>>,
                      via |-> "end", took |-> FALSE, ready |-> TRUE]
           [] OTHER ->
                IF TimerFlushes(lo, timerReady)
                THEN [leftover |-> Tail(lo), sleep |-> slp,
                      out |-> <<Head(lo)>>, via |-> "timer", took |-> FALSE,
                      ready |-> TRUE]
                ELSE [leftover |-> lo, sleep |-> slp, out |-> <<>>,
                      via |-> "pending", took |-> FALSE, ready |-> FALSE]

\* LinesStream::new over a fresh subscription: nothing buffered, the timer
\* armed for RX_DELAY (lib.rs 150-154, 600-611)
FramerNew ==
    /\ stream = <<>>
    /\ streamEnded = FALSE
    /\ leftover = <<>>
    /\ sleep = RX_DELAY
    /\ finished = FALSE
    /\ emitted = <<>>
    /\ consumed = <<>>
    /\ nChunks = 0
    /\ nTaken = 0
    /\ sinceChunk = 0
    /\ tookEmpty = FALSE
    /\ lastPoll = [via |-> "none", took |-> FALSE, empty |-> FALSE, n |-> 0]

\* the transport broadcasts a chunk to the subscription (lib.rs 94-99)
Arrive(chunk) ==
    /\ ~streamEnded
    /\ nChunks < MaxChunks
    /\ stream' = Append(stream, chunk)
    /\ nChunks' = nChunks + 1
    /\ UNCHANGED <<streamEnded, leftover, sleep, finished, emitted, consumed,
                   nTaken, sinceChunk, tookEmpty, lastPoll>>
    /\ UNCHANGED dumpVars
    /\ UNCHANGED restVars

\* the transport task ends and drops the sender
EndStream ==
    /\ ~streamEnded
    /\ streamEnded' = TRUE
    /\ UNCHANGED <<stream, leftover, sleep, finished, emitted, consumed,
                   nChunks, nTaken, sinceChunk, tookEmpty, lastPoll>>
    /\ UNCHANGED dumpVars
    /\ UNCHANGED restVars

\* RX_DELAY milliseconds pass
Tick ==
    /\ ~finished
    /\ sleep > 0 \/ sinceChunk < RX_DELAY
    /\ sleep' = IF sleep > RX_DELAY THEN sleep - RX_DELAY ELSE 0
    /\ sinceChunk' = RX_DELAY
    /\ UNCHANGED <<stream, streamEnded, leftover, finished, emitted, consumed,
                   nChunks, nTaken, tookEmpty, lastPoll>>
    /\ UNCHANGED dumpVars
    /\ UNCHANGED restVars

\* one call of poll_next on the framer (lib.rs 619-680) with its history
PollStep ==
    /\ ~finished
    /\ LET streamPoll == IF stream # <<>> THEN "chunk"
                         ELSE IF streamEnded THEN "none" ELSE "pending"
           chunk == IF stream # <<>> THEN Head(stream) ELSE <<>>
           r == PollNext(leftover, sleep, streamPoll, chunk)
       IN  /\ leftover' = r.leftover
           /\ sleep' = r.sleep
           /\ emitted' = emitted \o r.out
           /\ finished' = (r.via = "end" /\ r.out = <<>>)
           /\ stream' = IF r.took THEN Tail(stream) ELSE stream
           /\ nTaken' = IF r.took THEN nTaken + 1 ELSE nTaken
           /\ sinceChunk' = IF r.took THEN 0 ELSE sinceChunk
           /\ tookEmpty' = (tookEmpty \/ (r.took /\ chunk = <<>>))
           /\ consumed' = IF r.took
                          THEN (IF leftover = <<>> /\ nTaken > 0
                                THEN Append(consumed, CUT) ELSE consumed) \o chunk
                          ELSE consumed
           /\ lastPoll' = [via |-> r.via, took |-> r.took,
                           empty |-> r.took /\ chunk = <<>>, n |-> Len(r.out)]
    /\ UNCHANGED <<streamEnded, nChunks>>

\* the consumer calls poll_next (lib.rs 619-680)
Poll ==
    /\ PollStep
    /\ UNCHANGED dumpVars
    /\ UNCHANGED restVars

\* what the upstream's poll would return now
UpstreamPoll ==
    IF stream # <<>> THEN "chunk" ELSE IF streamEnded THEN "none" ELSE "pending"

UpstreamChunk == IF stream # <<>> THEN Head(stream) ELSE <<>>

----------------------------------------------------------------------------
(* A per-line wait: tokio::time::timeout(TIMEOUT, lines.next())            *)

\* no wait has been started; left: milliseconds until the timeout's
\* deadline; the start* fields and late are history: the framer when the
\* wait began, and whether time passed while a poll would have been Ready
WaitIdle ==
    [state |-> "idle", left |-> 0, out |-> <<>>, startLeftover |-> <<>>,
     startQuiet |-> FALSE, startChunks |-> 0, late |-> FALSE]

\* Timeout::poll: the inner future is polled first, the deadline only when
\* it is Pending; p is the framer's poll just made
WaitPolled(w, p, lines) ==
    IF p.n > 0 THEN [w EXCEPT !.state = "line", !.out = <<Last(lines)>>]
    ELSE IF p.via = "end" THEN [w EXCEPT !.state = "eof"]
    ELSE IF w.left = 0 THEN [w EXCEPT !.state = "elapsed"]
    ELSE [w EXCEPT !.state = "waiting"]

\* the caller starts a wait and the new future is polled for the first time
\* (lib.rs 169, 195, 360, 402, 447)
WaitStart ==
    /\ wait.state # "waiting"
    /\ PollStep
    /\ wait' = WaitPolled([state |-> "waiting", left |-> TIMEOUT, out |-> <<>>,
                           startLeftover |-> leftover,
                           startQuiet |-> (stream = <<>>),
                           startChunks |-> nChunks, late |-> FALSE],
                          lastPoll', emitted')
    /\ UNCHANGED <<dumpVars, transportVars, shell, query, calc, cli>>

\* the waiting task is woken and polls the wait again
WaitWake ==
    /\ wait.state = "waiting"
    /\ PollStep
    /\ wait' = WaitPolled(wait, lastPoll', emitted')
    /\ UNCHANGED <<dumpVars, transportVars, shell, query, calc, cli>>

\* RX_DELAY milliseconds pass: both deadlines come nearer
Elapse ==
    /\ ~finished
    /\ sleep > 0 \/ (wait.state = "waiting" /\ wait.left > 0)
    /\ sleep' = IF sleep > RX_DELAY THEN sleep - RX_DELAY ELSE 0
    /\ sinceChunk' = RX_DELAY
    /\ wait' = IF wait.state = "waiting"
               THEN [wait EXCEPT
                       !.left = IF @ > RX_DELAY THEN @ - RX_DELAY ELSE 0,
                       !.late = @ \/ PollNext(leftover, sleep, UpstreamPoll,
                                              UpstreamChunk).ready]
               ELSE wait
    /\ UNCHANGED <<stream, streamEnded, leftover, finished, emitted, consumed,
                   nChunks, nTaken, tookEmpty, lastPoll>>
    /\ UNCHANGED <<dumpVars, transportVars, shell, query, calc, cli>>

----------------------------------------------------------------------------
(* The transport task: the loop spawned by UBootClient::new, and the        *)
(* handles and subscriptions that talk to it                                *)

(* Bounds of the model *)

\* chunks the port delivers
MaxReads == 2
\* subscriptions created
MaxSubs == 2
\* payloads sent
MaxOuts == 2
\* capacity of a subscription's channel (mpsc::channel(1000) in chunks())
SubCap == 1
\* capacity of the control mailbox (mpsc::channel(1000) in new())
MailboxCap == 2
\* clones of the client handle alive at once
MaxHandles == 2

SubIds == 1..MaxSubs

\* what the clients send: a raw key and a command line
RawPayloads == { <<"k">> }
CmdLines == { <<"c">> }

\* send_cmd: cmd.push('\r') (lib.rs 136-140)
CmdPayload(cmd) == Append(cmd, CR)

Payloads == RawPayloads \cup {CmdPayload(cmd) : cmd \in CmdLines}

\* ctl_rx.recv(): the oldest message of the mailbox
MailboxTakeNewest(mb) ==
    [msg |-> mb[Len(mb)], rest |-> SubSeq(mb, 1, Len(mb) - 1)]

MailboxTake(mb) == [msg |-> Head(mb), rest |-> Tail(mb)]

\* payload_sender.send(chunk) into the subscription's channel
Enqueue(q, chunk) == Append(q, chunk)

\* a sweep that evicts nothing
RetainAll(subs) == subs

\* subscribers.retain(|_, subscriber| !subscriber.is_closed())
Retain(subs) == {s \in subs : alive[s]}

\* UBootClient::new: the task at its select, one handle, no subscription
TransportNew ==
    /\ task = "select"
    /\ endCause = "none"
    /\ mailbox = <<>>
    /\ handles = 1
    /\ subscribers = {}
    /\ todo = {}
    /\ blockedOn = 0
    /\ queue = [s \in SubIds |-> <<>>]
    /\ alive = [s \in SubIds |-> FALSE]
    /\ nSubs = 0
    /\ reads = 0
    /\ wire = <<>>
    /\ seen = [s \in SubIds |-> <<>>]
    /\ insertedAt = [s \in SubIds |-> -1]
    /\ outLog = <<>>
    /\ outsTaken = 0
    /\ writeFailed = FALSE

\* the send to subscription s completes at once: it fails when the receiver
\* is gone, it succeeds when the channel has room; otherwise it waits
SendReady(q, s) == ~alive[s] \/ Len(q[s]) < SubCap

\* the queues after chunk was sent to the subscriptions of served
SendToStale(q, served, chunk) ==
    [s \in SubIds |-> IF s \in served /\ alive[s] THEN Enqueue(q[s], 1)
                      ELSE q[s]]

SendTo(q, served, chunk) ==
    [s \in SubIds |-> IF s \in served /\ alive[s] THEN Enqueue(q[s], chunk)
                      ELSE q[s]]

\* the for loop of the broadcast (lib.rs 95-98) from the subscriptions of
\* rest on, run until a send has to wait or the loop is done; the slab's
\* iteration order is left open: any set of ready subscriptions may come
\* before the first one that makes the task wait
Broadcast(q, rest, chunk) ==
    LET ready == {s \in rest : SendReady(q, s)}
    IN  IF ready = rest
        THEN /\ queue' = SendTo(q, rest, chunk)
             /\ todo' = {}
             /\ blockedOn' = 0
             /\ task' = "select"
        ELSE \E served \in SUBSET ready : \E b \in rest \ ready :
                /\ queue' = SendTo(q, served, chunk)
                /\ todo' = rest \ served
                /\ blockedOn' = b
                /\ task' = "broadcast"

\* the task has left its loop: ctl_rx and the slab's senders are dropped
TaskEnds(cause) ==
    /\ task' = "ended"
    /\ endCause' = cause
    /\ mailbox' = <<>>
    /\ subscribers' = {}
    /\ todo' = {}
    /\ blockedOn' = 0

\* select: rx_port.read_buf completes (lib.rs 84-101)
PortRead(ok) ==
    /\ task = "select"
    /\ IF ok
       THEN /\ reads < MaxReads
            /\ reads' = reads + 1
            /\ subscribers' = Retain(subscribers)
            /\ Broadcast(queue, Retain(subscribers), reads + 1)
            /\ UNCHANGED <<endCause, mailbox>>
       ELSE /\ TaskEnds("read error")
            /\ UNCHANGED <<reads, queue>>
    /\ UNCHANGED <<handles, alive, nSubs, wire, seen, insertedAt, outLog,
                   outsTaken, writeFailed>>
    /\ UNCHANGED <<linesVars, dumpVars, wait, shell, query, calc, cli>>

\* the awaited send completes: the channel got room or the receiver was
\* dropped; the loop goes on (lib.rs 96)
BroadcastResume ==
    /\ task = "broadcast"
    /\ SendReady(queue, blockedOn)
    /\ Broadcast(SendTo(queue, {blockedOn}, reads), todo \ {blockedOn}, reads)
    /\ UNCHANGED <<endCause, mailbox, handles, subscribers, alive, nSubs,
                   reads, wire, seen, insertedAt, outLog, outsTaken, writeFailed>>
    /\ UNCHANGED <<linesVars, dumpVars, wait, shell, query, calc, cli>>

\* tx_port.write_all_buf(&mut cursor): it writes every byte, or fails before
\* the last one (before the only one of a one-byte payload)
WriteOutcomes == {"ok", "short"}

WriteTakes(data, outcome) ==
    CASE outcome = "ok" -> Len(data)
      [] outcome = "short" -> Len(data) - 1

\* select: ctl_rx.recv() yields a message (lib.rs 102-113); the error of a
\* failed write is dropped by `let _ =`
CtlRecv(outcome) ==
    /\ task = "select"
    /\ mailbox # <<>>
    /\ LET m == MailboxTake(mailbox)
       IN  /\ mailbox' = m.rest
           /\ IF m.msg.kind = "Out"
              THEN /\ wire' = wire \o SubSeq(m.msg.data, 1,
                                              WriteTakes(m.msg.data, outcome))
                   /\ writeFailed' = (writeFailed \/ outcome # "ok")
                   /\ outsTaken' = outsTaken + 1
                   /\ UNCHANGED <<subscribers, insertedAt>>
              ELSE /\ outcome = "ok"
                   /\ subscribers' = Retain(subscribers) \cup {m.msg.id}
                   /\ insertedAt' = [insertedAt EXCEPT ![m.msg.id] = reads]
                   /\ UNCHANGED <<wire, writeFailed, outsTaken>>
    /\ UNCHANGED <<task, endCause, handles, todo, blockedOn, queue, alive,
                   nSubs, reads, seen, outLog>>
    /\ UNCHANGED <<linesVars, dumpVars, wait, shell, query, calc, cli>>

\* select: ctl_rx.recv() yields None, every handle is gone and the mailbox
\* is drained (lib.rs 114-117)
CtlClosed ==
    /\ task = "select"
    /\ mailbox = <<>>
    /\ handles = 0
    /\ TaskEnds("mailbox closed")
    /\ UNCHANGED <<handles, queue, alive, nSubs, reads, wire, seen,
                   insertedAt, outLog, outsTaken, writeFailed>>
    /\ UNCHANGED <<linesVars, dumpVars, wait, shell, query, calc, cli>>

\* chunks() through a handle (lib.rs 143-147): the Sub message is queued and
\* the stream returned
Subscribe ==
    /\ handles > 0
    /\ task # "ended"
    /\ nSubs < MaxSubs
    /\ Len(mailbox) < MailboxCap
    /\ nSubs' = nSubs + 1
    /\ alive' = [alive EXCEPT ![nSubs + 1] = TRUE]
    /\ mailbox' = Append(mailbox, [kind |-> "Sub", id |-> nSubs + 1])
    /\ UNCHANGED <<task, endCause, handles, subscribers, todo, blockedOn,
                   queue, reads, wire, seen, insertedAt, outLog, outsTaken, writeFailed>>
    /\ UNCHANGED <<linesVars, dumpVars, wait, shell, query, calc, cli>>

\* send_raw(data) through a handle (lib.rs 126-133); send_cmd(cmd) is
\* send_raw of the command line with its \r
SendRaw(data) ==
    /\ handles > 0
    /\ task # "ended"
    /\ Len(outLog) < MaxOuts
    /\ Len(mailbox) < MailboxCap
    /\ mailbox' = Append(mailbox, [kind |-> "Out", data |-> data])
    /\ outLog' = Append(outLog, [data |-> data, subs |-> 1..nSubs])
    /\ UNCHANGED <<task, endCause, handles, subscribers, todo, blockedOn,
                   queue, alive, nSubs, reads, wire, seen, insertedAt,
                   outsTaken, writeFailed>>
    /\ UNCHANGED <<linesVars, dumpVars, wait, shell, query, calc, cli>>

\* the holder of subscription s takes the next chunk from its stream
SubRecv(s) ==
    /\ alive[s]
    /\ queue[s] # <<>>
    /\ seen' = [seen EXCEPT ![s] = Append(@, Head(queue[s]))]
    /\ queue' = [queue EXCEPT ![s] = Tail(@)]
    /\ UNCHANGED <<task, endCause, mailbox, handles, subscribers, todo,
                   blockedOn, alive, nSubs, reads, wire, insertedAt, outLog,
                   outsTaken, writeFailed>>
    /\ UNCHANGED <<linesVars, dumpVars, wait, shell, query, calc, cli>>

\* dropping a stream also ends the task and closes the mailbox
SubDropEndsTask(s) ==
    /\ task # "ended"
    /\ alive[s]
    /\ alive' = [alive EXCEPT ![s] = FALSE]
    /\ queue' = [queue EXCEPT ![s] = <<>>]
    /\ TaskEnds("stream dropped")
    /\ UNCHANGED <<handles, nSubs, reads, wire, seen, insertedAt, outLog,
                   outsTaken, writeFailed>>
    /\ UNCHANGED <<linesVars, dumpVars, wait, shell, query, calc, cli>>

\* the holder of subscription s drops its stream, as every query does when
\* it returns (lib.rs 209-210: `lines` is a local of the query); followed
\* while the task runs: afterwards it changes nothing the task does
SubDrop(s) ==
    /\ task # "ended"
    /\ alive[s]
    /\ alive' = [alive EXCEPT ![s] = FALSE]
    /\ queue' = [queue EXCEPT ![s] = <<>>]
    /\ UNCHANGED <<task, endCause, mailbox, handles, subscribers, todo,
                   blockedOn, nSubs, reads, wire, seen, insertedAt, outLog,
                   outsTaken, writeFailed>>
    /\ UNCHANGED <<linesVars, dumpVars, wait, shell, query, calc, cli>>

\* UBootClient::clone (lib.rs 47)
HandleClone ==
    /\ task # "ended"
    /\ handles > 0
    /\ handles < MaxHandles
    /\ handles' = handles + 1
    /\ UNCHANGED <<task, endCause, mailbox, subscribers, todo, blockedOn,
                   queue, alive, nSubs, reads, wire, seen, insertedAt, outLog,
                   outsTaken, writeFailed>>
    /\ UNCHANGED <<linesVars, dumpVars, wait, shell, query, calc, cli>>

\* a handle is dropped (followed while the task runs)
HandleDrop ==
    /\ task # "ended"
    /\ handles > 0
    /\ handles' = handles - 1
    /\ UNCHANGED <<task, endCause, mailbox, subscribers, todo, blockedOn,
                   queue, alive, nSubs, reads, wire, seen, insertedAt, outLog,
                   outsTaken, writeFailed>>
    /\ UNCHANGED <<linesVars, dumpVars, wait, shell, query, calc, cli>>

----------------------------------------------------------------------------
(* Console lines of the device used as inputs of the dump                  *)

NONUTF8 == "<80>"

\* the echo of an sf command
EchoSfLine ==
    <<"s", "f", " ", "p", "r", "o", "b", "e", " ", "0", CR>>

\* the crc32 answer of spec scenario 5
Crc32Line0x ==
    <<"c", "r", "c", "3", "2", " ", "f", "o", "r", " ", "0", "x", "4", "2",
      "0", "0", "0", "0", "0", "0", " ", ".", ".", ".", " ", "0", "x", "d",
      "e", "a", "d", "b", "e", "e", "f", CR>>

\* the crc32 answer with a bare hex checksum
Crc32LineBare ==
    <<"c", "r", "c", "3", "2", " ", "f", "o", "r", " ", "4", "2", "0", "0",
      "0", "0", "0", "0", " ", ".", ".", ".", " ", "4", "2", "0", "0", "0",
      "0", "3", "f", " ", "=", "=", ">", " ", "d", "e", "a", "d", "b", "e",
      "e", "f", CR>>

Crc32LineOf0102 ==
    <<"c", "r", "c", "3", "2", " ", "f", "o", "r", " ", "4", "2", "0", "0",
      "0", "0", "0", "0", " ", ".", ".", ".", " ", "4", "2", "0", "0", "0",
      "0", "0", "1", " ", "=", "=", ">", " ", "b", "6", "c", "c", "4", "2",
      "9", "2", CR>>

Crc32LineOf01 ==
    <<"c", "r", "c", "3", "2", " ", "f", "o", "r", " ", "4", "2", "0", "0",
      "0", "0", "0", "0", " ", ".", ".", ".", " ", "4", "2", "0", "0", "0",
      "0", "0", "0", " ", "=", "=", ">", " ", "a", "5", "0", "5", "d", "f",
      "1", "b", CR>>

Crc32LineZero ==
    <<"c", "r", "c", "3", "2", " ", "f", "o", "r", " ", "4", "2", "0", "0",
      "0", "0", "0", "0", " ", ".", ".", ".", " ", "4", "2", "0", "0", "0",
      "0", "0", "0", " ", "=", "=", ">", " ", "0", "0", "0", "0", "0", "0",
      "0", "0", CR>>

Crc32LineBad ==
    <<"c", "r", "c", "3", "2", " ", "f", "o", "r", " ", "=", "=", ">", " ",
      "z", "z", CR>>

\* the echo of the crc32 command
Crc32EchoLine ==
    <<"c", "r", "c", "3", "2", " ", "0", "x", "4", "2", "0", "0", "0", "0",
      "0", "0", " ", "0", "x", "0", "0", "0", "0", "0", "0", "0", "2", CR>>

\* the shell prompt, flushed without terminator
PromptLine ==
    <<"h", "i", "s", "i", "l", "i", "c", "o", "n", " ", "#", " ">>

\* the echo of the md.b command
MdEchoLine ==
    <<"m", "d", ".", "b", " ", "0", "x", "4", "2", "0", "0", "0", "0", "0",
      "0", " ", "0", "x", "0", "0", "0", "0", "0", "0", "0", "2", CR>>

\* a hex-dump line without bytes
MdLine0 ==
    <<"4", "2", "0", "0", "0", "0", "0", "0", ":", CR>>

MdLine01 ==
    <<"4", "2", "0", "0", "0", "0", "0", "0", ":", " ", "0", "1", " ", " ",
      " ", " ", ".", CR>>

MdLine0102 ==
    <<"4", "2", "0", "0", "0", "0", "0", "0", ":", " ", "0", "1", " ", "0",
      "2", " ", " ", " ", " ", ".", ".", CR>>

\* seventeen pairs separated by single spaces
MdLine17 ==
    <<"4", "2", "0", "0", "0", "0", "0", "0", ":", " ", "0", "1", " ", "0",
      "1", " ", "0", "1", " ", "0", "1", " ", "0", "1", " ", "0", "1", " ",
      "0", "1", " ", "0", "1", " ", "0", "1", " ", "0", "1", " ", "0", "1",
      " ", "0", "1", " ", "0", "1", " ", "0", "1", " ", "0", "1", " ", "0",
      "1", " ", "0", "1", CR>>

\* a terminated line that is no hex dump
GarbageLine ==
    <<"U", "n", "k", "n", "o", "w", "n", " ", "c", "o", "m", "m", "a", "n",
      "d", CR>>

\* a terminated line that is not UTF-8
NonUtf8Line ==
    <<"4", "2", "0", "0", "0", "0", "0", "0", ":", " ", "0", "1", NONUTF8, CR>>

HappyLine1 ==
    <<"4", "2", "0", "0", "0", "0", "0", "0", ":", " ", "1", "5", " ", "0",
      "5", " ", "0", "0", " ", "e", "a", " ", "f", "e", " ", "f", "f", " ",
      "f", "f", " ", "e", "a", " ", "f", "e", " ", "f", "f", " ", "f", "f",
      " ", "e", "a", " ", "f", "e", " ", "f", "f", " ", "f", "f", " ", "e",
      "a", " ", " ", " ", " ", ".", ".", ".", ".", ".", ".", ".", ".", ".",
      ".", ".", ".", ".", ".", ".", ".", CR>>

HappyLine2 ==
    <<"4", "2", "0", "0", "0", "0", "1", "0", ":", " ", "0", "0", " ", "0",
      "1", " ", "0", "2", " ", "0", "3", " ", "0", "4", " ", "0", "5", " ",
      "0", "6", " ", "0", "7", " ", "0", "8", " ", "0", "9", " ", "0", "a",
      " ", "0", "b", " ", "0", "c", " ", "0", "d", " ", "0", "e", " ", "0",
      "f", " ", " ", " ", " ", ".", ".", ".", ".", ".", ".", ".", ".", ".",
      ".", ".", ".", ".", ".", ".", ".", CR>>

HappyLine3 ==
    <<"4", "2", "0", "0", "0", "0", "2", "0", ":", " ", "2", "0", " ", "2",
      "1", " ", "2", "2", " ", "2", "3", " ", "2", "4", " ", "2", "5", " ",
      "2", "6", " ", "2", "7", " ", "2", "8", " ", "2", "9", " ", "2", "a",
      " ", "2", "b", " ", "2", "c", " ", "2", "d", " ", "2", "e", " ", "2",
      "f", " ", " ", " ", " ", " ", "!", ".", "#", "$", "%", "&", "'", "(",
      ")", "*", "+", ",", "-", ".", "/", CR>>

HappyLine4 ==
    <<"4", "2", "0", "0", "0", "0", "3", "0", ":", " ", "3", "0", " ", "3",
      "1", " ", "3", "2", " ", "3", "3", " ", "3", "4", " ", "3", "5", " ",
      "3", "6", " ", "3", "7", " ", "3", "8", " ", "3", "9", " ", "3", "a",
      " ", "3", "b", " ", "d", "c", " ", "7", "8", " ", "7", "2", " ", "d",
      "4", " ", " ", " ", " ", "0", "1", "2", "3", "4", "5", "6", "7", "8",
      "9", ":", ";", ".", "x", "r", ".", CR>>

\* HappyLine2 with one payload bit flipped
FlippedLine2 ==
    <<"4", "2", "0", "0", "0", "0", "1", "0", ":", " ", "0", "1", " ", "0",
      "1", " ", "0", "2", " ", "0", "3", " ", "0", "4", " ", "0", "5", " ",
      "0", "6", " ", "0", "7", " ", "0", "8", " ", "0", "9", " ", "0", "a",
      " ", "0", "b", " ", "0", "c", " ", "0", "d", " ", "0", "e", " ", "0",
      "f", " ", " ", " ", " ", ".", ".", ".", ".", ".", ".", ".", ".", ".",
      ".", ".", ".", ".", ".", ".", ".", CR>>

----------------------------------------------------------------------------
(* Parse utilities (parse_utils.rs) and the hex-dump parser (hex_dump.rs)   *)

\* one_of("0123456789abcdefABCDEF") and the value of the digit
HexDigits ==
    <<"0", "1", "2", "3", "4", "5", "6", "7", "8", "9",
      "a", "b", "c", "d", "e", "f", "A", "B", "C", "D", "E", "F">>

IsHexDig(c) == \E i \in 1..Len(HexDigits) : HexDigits[i] = c

hex_dig(c) ==
    LET i == CHOOSE k \in 1..Len(HexDigits) : HexDigits[k] = c
    IN  IF i <= 16 THEN i - 1 ELSE i - 7

\* a u64 is kept as its sixteen hex digits, most significant first
U64Zero == [i \in 1..16 |-> 0]

\* (val << 4) | dig on a u64: the top digit is shifted out
ShiftIn(val, dig) == Append(Tail(val), dig)

\* the low 32 bits of a u64 (`sum as u32`), as eight hex digits
AsU32(val) == SubSeq(val, 9, 16)

\* the number of leading characters of s, from position i, that are hex digits
RECURSIVE HexRun(_, _)
HexRun(s, i) == IF i <= Len(s) /\ IsHexDig(s[i]) THEN 1 + HexRun(s, i + 1) ELSE 0

RECURSIVE FoldHex(_, _, _, _)
FoldHex(s, i, n, val) ==
    IF n = 0 THEN val ELSE FoldHex(s, i + 1, n - 1, ShiftIn(val, hex_dig(s[i])))

\* hex_u64: fold_many1(hex_dig, 0, (val << 4) | dig), from position i of s;
\* it stops at the first character that is no hex digit
hex_u64(s, i) ==
    LET n == HexRun(s, i)
    IN  IF n = 0 THEN [ok |-> FALSE, val |-> U64Zero, next |-> i]
        ELSE [ok |-> TRUE, val |-> FoldHex(s, i, n, U64Zero), next |-> i + n]

\* hex_u8 that takes one digit only
HexU8OneDigit(s, i) ==
    IF ~(i <= Len(s) /\ IsHexDig(s[i])) THEN [ok |-> FALSE, val |-> 0, next |-> i]
    ELSE [ok |-> TRUE, val |-> hex_dig(s[i]), next |-> i + 1]

\* hex_u8: one hex digit and an optional second one, (h1 << 4) | h2
hex_u8(s, i) ==
    IF ~(i <= Len(s) /\ IsHexDig(s[i])) THEN [ok |-> FALSE, val |-> 0, next |-> i]
    ELSE IF i + 1 <= Len(s) /\ IsHexDig(s[i + 1])
    THEN [ok |-> TRUE, val |-> hex_dig(s[i]) * 16 + hex_dig(s[i + 1]), next |-> i + 2]
    ELSE [ok |-> TRUE, val |-> hex_dig(s[i]), next |-> i + 1]

\* space0: skip spaces and tabs
RECURSIVE space0(_, _)
space0(s, i) == IF i <= Len(s) /\ s[i] \in {" ", "\t"} THEN space0(s, i + 1) ELSE i

\* separated_list0(char(' '), hex_u8) from position i: the bytes parsed
RECURSIVE MoreBytes(_, _)
MoreBytes(s, i) ==
    IF i <= Len(s) /\ s[i] = " " /\ hex_u8(s, i + 1).ok
    THEN <<hex_u8(s, i + 1).val>> \o MoreBytes(s, hex_u8(s, i + 1).next)
    ELSE <<>>

separated_list0(s, i) ==
    IF hex_u8(s, i).ok
    THEN <<hex_u8(s, i).val>> \o MoreBytes(s, hex_u8(s, i).next)
    ELSE <<>>

\* HexDump::parse_line: <hex-addr> ':' space0 bytes; what follows is ignored
parse_line(s) ==
    LET a == hex_u64(s, 1)
    IN  IF a.ok /\ a.next <= Len(s) /\ s[a.next] = ":"
        THEN [ok |-> TRUE, data |-> separated_list0(s, space0(s, a.next + 1))]
        ELSE [ok |-> FALSE, data |-> <<>>]

\* core::str::from_utf8 on a line of the model
IsUtf8(s) == \A i \in 1..Len(s) : s[i] # NONUTF8

ends_with_cr(s) == s # <<>> /\ s[Len(s)] = CR

starts_with(s, p) == Len(s) >= Len(p) /\ SubSeq(s, 1, Len(p)) = p

\* line.rsplitn(2, ' ').next(): the position where the last token starts
LastToken(s) ==
    LET sp == {i \in 1..Len(s) : s[i] = " "}
    IN  IF sp = {} THEN 1 ELSE 1 + CHOOSE i \in sp : \A j \in sp : j <= i

----------------------------------------------------------------------------
(* CRC-32 (crc32fast::Hasher): reflected polynomial 0xEDB88320, register     *)
(* preset and final complement 0xFFFFFFFF. A u32 is kept as its eight hex   *)
(* digits, most significant first, like AsU32.                              *)

Bits4(n) == <<(n \div 8) % 2, (n \div 4) % 2, (n \div 2) % 2, n % 2>>

Xor4(a, b) ==
    LET x == Bits4(a)
        y == Bits4(b)
        B(i) == (x[i] + y[i]) % 2
    IN  8 * B(1) + 4 * B(2) + 2 * B(3) + B(4)

XorU32(a, b) ==
    <<Xor4(a[1], b[1]), Xor4(a[2], b[2]), Xor4(a[3], b[3]), Xor4(a[4], b[4]),
      Xor4(a[5], b[5]), Xor4(a[6], b[6]), Xor4(a[7], b[7]), Xor4(a[8], b[8])>>

\* the register shifted right by one bit
Shr1(a) ==
    LET D(i) == (a[i] \div 2) + 8 * (a[i - 1] % 2)
    IN  <<a[1] \div 2, D(2), D(3), D(4), D(5), D(6), D(7), D(8)>>

Poly == <<14, 13, 11, 8, 8, 3, 2, 0>>

AllOnes == <<15, 15, 15, 15, 15, 15, 15, 15>>

U32 == [1..8 -> 0..15]

\* one bit of the register is shifted out
CrcBit[c \in U32] == IF c[8] % 2 = 1 THEN XorU32(Shr1(c), Poly) ELSE Shr1(c)

\* the register after one more byte: the byte is added to the low end and
\* eight bits are shifted out
CrcByte[c \in U32, b \in 0..255] ==
    CrcBit[CrcBit[CrcBit[CrcBit[CrcBit[CrcBit[CrcBit[CrcBit[
        XorU32(c, <<0, 0, 0, 0, 0, 0, b \div 16, b % 16>>)]]]]]]]]

\* the register after the first n bytes of data
RECURSIVE CrcBytes(_, _, _)
CrcBytes(c, data, n) ==
    IF n = 0 THEN c ELSE CrcByte[CrcBytes(c, data, n - 1), data[n]]

\* Hasher::new(), Hasher::update and Hasher::finalize; the hasher's state is
\* the checksum of the bytes fed so far
HasherNew == <<0, 0, 0, 0, 0, 0, 0, 0>>

HasherNoUpdate(h, data) == h

HasherUpdate(h, data) ==
    XorU32(CrcBytes(XorU32(h, AllOnes), data, Len(data)), AllOnes)

HasherFinalize(h) == h

----------------------------------------------------------------------------
(* The MTD partition dump: UBootClient::dump_mtd_part and what it calls      *)

(* Program constants *)

\* tokio::sync::mpsc::channel(10) of the progress values
PROGRESS_CAP == 10
\* the hex dump's bytes per line
MAX_LINE_BYTES == 16

(* Bounds of the model *)

\* partition sizes of the generic device: 0..MaxSize
MaxSize == 2
\* terminated lines counted per sf command
MaxSfLines == 2

\* TerminalKey::Ctrl(code).encode(): code - (b'A' - 0x1)
TerminalKeyEncodeCtrl(code) == code - (65 - 1)

\* TerminalKey::Ctrl(b'C').encode(), the payload of the abort
CtrlC == <<"raw", TerminalKeyEncodeCtrl(67)>>

\* let address = ram.base + ram.size / 2
DumpAddress(ram) == ram.base + ram.size \div 2

\* the RAM of spec scenario 5: base 0x40000000, size 0x04000000
Ram == [base |-> 1073741824, size |-> 67108864]

\* the bytes of the four hex-dump lines of scenario 5
HappyData ==
    parse_line(HappyLine1).data \o parse_line(HappyLine2).data
        \o parse_line(HappyLine3).data \o parse_line(HappyLine4).data

\* what the device may print while an sf command runs
SfLines == {EchoSfLine, PromptLine}

\* a device with a small partition that may answer anything the console can
\* show: echoes, checksums of several contents, hex-dump lines of 0, 1, 2 and
\* 17 bytes, text that is no hex dump, a flushed prompt
GenericDevice(n) ==
    [size |-> n,
     crcLines |-> {Crc32EchoLine, PromptLine, Crc32LineBad, Crc32LineZero,
                   Crc32LineOf01, Crc32LineOf0102},
     mdLines |-> {MdEchoLine, PromptLine, GarbageLine, NonUtf8Line, MdLine0,
                  MdLine01, MdLine0102, MdLine17}]

\* the device of scenarios 5 and 6: a partition of 0x40 bytes, the crc32
\* answer crc, and the four hex-dump lines or the one with a flipped byte
ScenarioDevice(crc) ==
    [size |-> 64,
     crcLines |-> {crc},
     mdLines |-> {MdEchoLine, HappyLine1, HappyLine2, HappyLine3, HappyLine4,
                  FlippedLine2}]

Devices ==
    {GenericDevice(n) : n \in 0..MaxSize}
        \cup {ScenarioDevice(Crc32Line0x), ScenarioDevice(Crc32LineBare)}

Running == [kind |-> "running", by |-> 0]
Ok == [kind |-> "Ok", by |-> 0]
Err(msg) == [kind |-> msg, by |-> 0]

\* lib.rs 481-489: the checks after the loop
FinishNoChecksum(o, size, sum, h) ==
    IF o > size THEN [kind |-> "OutOfRegion", by |-> o - size] ELSE Ok

FinishExcessOffByOne(o, size, sum, h) ==
    IF o > size THEN [kind |-> "OutOfRegion", by |-> o - size - 1]
    ELSE IF sum # HasherFinalize(h) THEN Err("ChecksumMismatch")
    ELSE Ok

Finish(o, size, sum, h) ==
    IF o > size THEN [kind |-> "OutOfRegion", by |-> o - size]
    ELSE IF sum # HasherFinalize(h) THEN Err("ChecksumMismatch")
    ELSE Ok

\* calc_crc32 on the last token of a `crc32 for` line (lib.rs 407-411)
ParseChecksum(line) == hex_u64(line, LastToken(line))

CrcForPrefix == <<"c", "r", "c", "3", "2", " ", "f", "o", "r">>
MdPrefix == <<"m", "d", ".", "b">>

\* the dump loop has not waited for a line yet
MdInNone == [is |-> "none", line |-> <<>>]

\* the state when dump_mtd_part is called for a partition of the device
DumpInit ==
    /\ device \in Devices
    /\ region = [base |-> 0, size |-> device.size]
    /\ address = DumpAddress(Ram)
    /\ pc = "sf_probe"
    /\ count = 0
    /\ checksum = HasherNew
    /\ crcLine = <<>>
    /\ hasher = HasherNew
    /\ off = 0
    /\ written = <<>>
    /\ progress = <<>>
    /\ rxOpen = TRUE
    /\ lastProgress = -1
    /\ cancelled = FALSE
    /\ checked = FALSE
    /\ sent = <<>>
    /\ transportUp = TRUE
    /\ result = Running
    /\ busy = "none"
    /\ mdIn = MdInNone

\* no dump is running
DumpIdle ==
    /\ device = GenericDevice(0)
    /\ region = [base |-> 0, size |-> 0]
    /\ address = DumpAddress(Ram)
    /\ pc = "idle"
    /\ count = 0
    /\ checksum = HasherNew
    /\ crcLine = <<>>
    /\ hasher = HasherNew
    /\ off = 0
    /\ written = <<>>
    /\ progress = <<>>
    /\ rxOpen = TRUE
    /\ lastProgress = -1
    /\ cancelled = FALSE
    /\ checked = FALSE
    /\ sent = <<>>
    /\ transportUp = TRUE
    /\ result = Running
    /\ busy = "none"
    /\ mdIn = MdInNone

Return(r) == pc' = "done" /\ result' = r

\* the command each phase sends, and the phase that reads its answer
Command(p) ==
    CASE p = "sf_probe" -> <<"sf probe 0">>
      [] p = "sf_read" -> <<"sf read", address, region.base, region.size>>
      [] p = "crc32_cmd" -> <<"crc32", address, region.size>>
      [] p = "md_cmd" -> <<"md.b", address, region.size>>

Reading(p) ==
    CASE p = "sf_probe" -> "probe"
      [] p = "sf_read" -> "read"
      [] p = "crc32_cmd" -> "crc32"
      [] p = "md_cmd" -> "md"

\* lines() and send_cmd() at the start of spi_flash_cmd (lib.rs 353-357),
\* calc_crc32 (395-399) and the dump loop (437-446); both fail when the
\* transport task has ended
SendCommand ==
    /\ pc \in {"sf_probe", "sf_read", "crc32_cmd", "md_cmd"}
    /\ IF ~transportUp
       THEN /\ Return(Err("Send"))
            /\ UNCHANGED <<sent, count, checked>>
       ELSE /\ sent' = Append(sent, Command(pc))
            /\ count' = 0
            /\ IF pc = "md_cmd" /\ ~(0 < region.size)
               THEN /\ checked' = TRUE
                    /\ Return(Finish(off, region.size, checksum, hasher))
               ELSE /\ pc' = Reading(pc)
                    /\ UNCHANGED <<result, checked>>
    /\ UNCHANGED <<device, region, address, checksum, crcLine, hasher, off,
                   written, progress, rxOpen, lastProgress, cancelled,
                   transportUp>>
    /\ busy' = IF transportUp THEN Command(pc)[1] ELSE busy
    /\ UNCHANGED mdIn
    /\ UNCHANGED linesVars
    /\ UNCHANGED restVars

\* spi_flash_cmd: a line arrives within TIMEOUT (lib.rs 361-368)
SfLine(line) ==
    /\ pc \in {"probe", "read"}
    /\ transportUp
    /\ count < MaxSfLines
    /\ count' = IF ends_with_cr(line) /\ IsUtf8(line) THEN count + 1 ELSE count
    /\ UNCHANGED <<device, region, address, pc, checksum, crcLine, hasher, off,
                   written, progress, rxOpen, lastProgress, cancelled, checked,
                   sent, transportUp, result>>
    /\ UNCHANGED <<busy, mdIn>>
    /\ UNCHANGED linesVars
    /\ UNCHANGED restVars

\* spi_flash_cmd: no line for TIMEOUT (lib.rs 370-378); read_mtd_part and
\* dump_mtd_part go on to the next command (382-391, 434-435)
SfTimeout ==
    /\ pc \in {"probe", "read"}
    /\ transportUp
    /\ IF count > 0
       THEN /\ pc' = IF pc = "probe" THEN "sf_read" ELSE "crc32_cmd"
            /\ UNCHANGED result
       ELSE Return(Err("SpiCommand"))
    /\ UNCHANGED <<device, region, address, count, checksum, crcLine, hasher,
                   off, written, progress, rxOpen, lastProgress, cancelled,
                   checked, sent, transportUp>>
    /\ UNCHANGED <<busy, mdIn>>
    /\ UNCHANGED linesVars
    /\ UNCHANGED restVars

\* the line stream has ended: Ok(None) (lib.rs 369, 416, 459)
Eof ==
    /\ pc \in {"probe", "read", "crc32", "md"}
    /\ ~transportUp
    /\ Return(Err("Eof"))
    /\ UNCHANGED <<device, region, address, count, checksum, crcLine, hasher,
                   off, written, progress, rxOpen, lastProgress, cancelled,
                   checked, sent, transportUp>>
    /\ mdIn' = IF pc = "md" THEN [is |-> "eof", line |-> <<>>] ELSE mdIn
    /\ UNCHANGED busy
    /\ UNCHANGED linesVars
    /\ UNCHANGED restVars

\* calc_crc32: a line arrives within TIMEOUT (lib.rs 403-415)
Crc32LineIn(line) ==
    /\ pc = "crc32"
    /\ transportUp
    /\ IF ~ends_with_cr(line)
       THEN UNCHANGED <<pc, result, checksum, crcLine>>
       ELSE IF ~IsUtf8(line)
       THEN Return(Err("Utf8")) /\ UNCHANGED <<checksum, crcLine>>
       ELSE IF ~starts_with(line, CrcForPrefix)
       THEN UNCHANGED <<pc, result, checksum, crcLine>>
       ELSE IF ~ParseChecksum(line).ok
       THEN Return(Err("Crc32Parse")) /\ UNCHANGED <<checksum, crcLine>>
       ELSE /\ checksum' = AsU32(ParseChecksum(line).val)
            /\ crcLine' = line
            /\ pc' = "md_cmd"
            /\ UNCHANGED result
    /\ UNCHANGED <<device, region, address, count, hasher, off, written,
                   progress, rxOpen, lastProgress, cancelled, checked, sent,
                   transportUp>>
    /\ UNCHANGED <<busy, mdIn>>
    /\ UNCHANGED linesVars
    /\ UNCHANGED restVars

\* calc_crc32: no line for TIMEOUT (lib.rs 417)
Crc32Timeout ==
    /\ pc = "crc32"
    /\ transportUp
    /\ Return(Err("Crc32Timeout"))
    /\ UNCHANGED <<device, region, address, count, checksum, crcLine, hasher,
                   off, written, progress, rxOpen, lastProgress, cancelled,
                   checked, sent, transportUp>>
    /\ UNCHANGED <<busy, mdIn>>
    /\ UNCHANGED linesVars
    /\ UNCHANGED restVars

\* progress.send(off) and what follows it (lib.rs 474-489, 446): the abort
\* when the receiver is gone, the next turn of the loop, or the final checks;
\* o and h are off and the hasher after the line
ProgressSend(o, h) ==
    IF ~rxOpen
    THEN /\ cancelled' = TRUE
         /\ UNCHANGED <<progress, lastProgress>>
         /\ IF transportUp
            THEN /\ sent' = Append(sent, CtrlC)
                 /\ checked' = TRUE
                 /\ Return(Finish(o, region.size, checksum, h))
            ELSE /\ Return(Err("Send"))
                 /\ UNCHANGED <<sent, checked>>
    ELSE IF Len(progress) < PROGRESS_CAP
    THEN /\ progress' = Append(progress, o)
         /\ lastProgress' = o
         /\ UNCHANGED <<cancelled, sent>>
         /\ IF o < region.size
            THEN pc' = "md" /\ UNCHANGED <<result, checked>>
            ELSE checked' = TRUE /\ Return(Finish(o, region.size, checksum, h))
    ELSE /\ pc' = "send"
         /\ UNCHANGED <<progress, lastProgress, cancelled, sent, result, checked>>

\* file.write_all(&data): it takes every byte, or fails before the first
\* byte, or fails before the last one
SinkOutcomes == {"ok", "error", "short"}

SinkTakes(data, sink) ==
    CASE sink = "ok" -> Len(data)
      [] sink = "error" -> 0
      [] sink = "short" -> IF Len(data) > 0 THEN Len(data) - 1 ELSE 0

\* a dump loop that skips a line without \r
ClassifySkipsOpen(line) ==
    LET p == parse_line(line)
    IN  IF ~ends_with_cr(line) THEN [is |-> "continue", data |-> <<>>]
        ELSE IF ~IsUtf8(line) THEN [is |-> "Utf8", data |-> <<>>]
        ELSE IF starts_with(line, MdPrefix) THEN [is |-> "continue", data |-> <<>>]
        ELSE IF ~p.ok THEN [is |-> "HexDumpParse", data |-> <<>>]
        ELSE IF Len(p.data) > MAX_LINE_BYTES THEN [is |-> "TooManyBytes", data |-> <<>>]
        ELSE [is |-> "data", data |-> p.data]

\* what the dump loop makes of a line before it touches its state
\* (lib.rs 448-468): an error, a skipped echo, or the bytes of the line
Classify(line) ==
    LET p == parse_line(line)
    IN  IF ~ends_with_cr(line) THEN [is |-> "EndOfDump", data |-> <<>>]
        ELSE IF ~IsUtf8(line) THEN [is |-> "Utf8", data |-> <<>>]
        ELSE IF starts_with(line, MdPrefix) THEN [is |-> "continue", data |-> <<>>]
        ELSE IF ~p.ok THEN [is |-> "HexDumpParse", data |-> <<>>]
        ELSE IF Len(p.data) > MAX_LINE_BYTES THEN [is |-> "TooManyBytes", data |-> <<>>]
        ELSE [is |-> "data", data |-> p.data]

\* the lines of all devices with what the loop makes of them
MdLineTable ==
    { <<line, Classify(line)>> :
        line \in UNION {d.mdLines : d \in Devices} }

Classified(line) == (CHOOSE e \in MdLineTable : e[1] = line)[2]

\* one turn of the dump loop: a line arrives within TIMEOUT (lib.rs 446-479)
MdLineIn(line, sink) ==
    /\ pc = "md"
    /\ transportUp
    /\ LET c == Classified(line)
       IN  IF c.is = "continue"
           THEN /\ sink = "ok"
                /\ UNCHANGED <<pc, result, hasher, written, off, progress,
                               lastProgress, cancelled, checked, sent>>
           ELSE IF c.is # "data"
           THEN /\ sink = "ok"
                /\ Return(Err(c.is))
                /\ UNCHANGED <<hasher, written, off, progress, lastProgress,
                               cancelled, checked, sent>>
           ELSE /\ hasher' = HasherUpdate(hasher, c.data)
                /\ written' = written \o SubSeq(c.data, 1, SinkTakes(c.data, sink))
                /\ IF SinkTakes(c.data, sink) < Len(c.data)
                   THEN /\ Return(Err("Io"))
                        /\ UNCHANGED <<off, progress, lastProgress, cancelled,
                                       checked, sent>>
                   ELSE /\ off' = off + Len(c.data)
                        /\ ProgressSend(off', hasher')
    /\ UNCHANGED <<device, region, address, count, checksum, crcLine, rxOpen,
                   transportUp>>
    /\ mdIn' = [is |-> "line", line |-> line]
    /\ UNCHANGED busy
    /\ UNCHANGED linesVars
    /\ UNCHANGED restVars

\* the progress channel was full: the send completes when the consumer has
\* taken a value, or fails when it has dropped the receiver
SendUnblocked ==
    /\ pc = "send"
    /\ ~rxOpen \/ Len(progress) < PROGRESS_CAP
    /\ ProgressSend(off, hasher)
    /\ UNCHANGED <<device, region, address, count, checksum, crcLine, hasher,
                   off, written, rxOpen, transportUp>>
    /\ UNCHANGED <<busy, mdIn>>
    /\ UNCHANGED linesVars
    /\ UNCHANGED restVars

\* the dump loop: no line for TIMEOUT (lib.rs 460)
MdTimeout ==
    /\ pc = "md"
    /\ transportUp
    /\ Return(Err("DumpTimeout"))
    /\ UNCHANGED <<device, region, address, count, checksum, crcLine, hasher,
                   off, written, progress, rxOpen, lastProgress, cancelled,
                   checked, sent, transportUp>>
    /\ mdIn' = [is |-> "timeout", line |-> <<>>]
    /\ UNCHANGED busy
    /\ UNCHANGED linesVars
    /\ UNCHANGED restVars

\* the caller takes a progress value (cli main.rs 311-313)
ProgressRecv ==
    /\ pc # "idle"
    /\ rxOpen
    /\ progress # <<>>
    /\ progress' = Tail(progress)
    /\ UNCHANGED <<device, region, address, pc, count, checksum, crcLine,
                   hasher, off, written, rxOpen, lastProgress, cancelled,
                   checked, sent, transportUp, result>>
    /\ UNCHANGED <<busy, mdIn>>
    /\ UNCHANGED linesVars
    /\ UNCHANGED restVars

\* the caller drops the progress receiver while the dump runs
ProgressDrop ==
    /\ pc \notin {"idle", "done"}
    /\ rxOpen
    /\ rxOpen' = FALSE
    /\ progress' = <<>>
    /\ UNCHANGED <<device, region, address, pc, count, checksum, crcLine,
                   hasher, off, written, lastProgress, cancelled, checked,
                   sent, transportUp, result>>
    /\ UNCHANGED <<busy, mdIn>>
    /\ UNCHANGED linesVars
    /\ UNCHANGED restVars

\* the transport task ends on a port read error (lib.rs 90-92)
TransportDies ==
    /\ pc \notin {"idle", "done"}
    /\ transportUp
    /\ transportUp' = FALSE
    /\ UNCHANGED <<device, region, address, pc, count, checksum, crcLine,
                   hasher, off, written, progress, rxOpen, lastProgress,
                   cancelled, checked, sent, result>>
    /\ UNCHANGED <<busy, mdIn>>
    /\ UNCHANGED linesVars
    /\ UNCHANGED restVars

\* the device has finished the command it was executing; it says so by
\* printing its prompt, which the sf loops and the dump loop do not look for
DeviceDone ==
    /\ pc \notin {"idle", "done"}
    /\ busy # "none"
    /\ busy' = "none"
    /\ UNCHANGED <<device, region, address, pc, count, checksum, crcLine,
                   hasher, off, written, progress, rxOpen, lastProgress,
                   cancelled, checked, sent, transportUp, result, mdIn>>
    /\ UNCHANGED linesVars
    /\ UNCHANGED restVars

----------------------------------------------------------------------------
(* TerminalKey::parse_stop_autoboot and UBootClient::shell_presence         *)

UpperLetters ==
    <<"A", "B", "C", "D", "E", "F", "G", "H", "I", "J", "K", "L", "M", "N",
      "O", "P", "Q", "R", "S", "T", "U", "V", "W", "X", "Y", "Z">>

LowerLetters ==
    <<"a", "b", "c", "d", "e", "f", "g", "h", "i", "j", "k", "l", "m", "n",
      "o", "p", "q", "r", "s", "t", "u", "v", "w", "x", "y", "z">>

\* is_alpha (terminal_key.rs 31-39)
is_alpha(c) == \E i \in 1..26 : UpperLetters[i] = c \/ LowerLetters[i] = c

\* the lower-case form of a character, for tag_no_case
Lower(c) ==
    IF \E i \in 1..26 : UpperLetters[i] = c
    THEN LowerLetters[CHOOSE i \in 1..26 : UpperLetters[i] = c]
    ELSE c

\* the byte of a letter: 'A' is 65, 'a' is 97
Ord(c) ==
    IF \E i \in 1..26 : UpperLetters[i] = c
    THEN 64 + (CHOOSE i \in 1..26 : UpperLetters[i] = c)
    ELSE 96 + (CHOOSE i \in 1..26 : LowerLetters[i] = c)

\* the Ctrl branch keeps the letter's byte as it is
CodeAsIs(c) == Ord(c)

\* the byte of a letter, upper-cased as the Ctrl branch does
\* (terminal_key.rs 49-54)
UpperCode(c) == IF Ord(c) < 97 THEN Ord(c) ELSE Ord(c) - (97 - 65)

\* tag_no_case(word) at position i of s: the position behind it, or 0; a
\* failed parser before it (i = 0) fails it too
tag(s, i, word) ==
    IF /\ i # 0
       /\ i + Len(word) - 1 <= Len(s)
       /\ \A k \in 1..Len(word) : Lower(s[i + k - 1]) = word[k]
    THEN i + Len(word) ELSE 0

\* nom space1 at position i: the position behind the spaces, or 0; a failed
\* parser before it (i = 0) fails it too
space1(s, i) ==
    IF i = 0 \/ i > Len(s) \/ s[i] \notin {" ", "\t"} THEN 0 ELSE space0(s, i)

\* the key of the prompt at position i (terminal_key.rs 45-59): Ctrl-letter,
\* `any key`, or one letter, tried in this order
KeyAt(s, i) ==
    LET c == tag(s, i, <<"c", "t", "r", "l">>)
        a == tag(s, space1(s, tag(s, i, <<"a", "n", "y">>)), <<"k", "e", "y">>)
    IN  IF c # 0 /\ c + 1 <= Len(s) /\ s[c] \in {"-", "+"} /\ is_alpha(s[c + 1])
        THEN [next |-> c + 2, key |-> <<"Ctrl", UpperCode(s[c + 1])>>]
        ELSE IF a # 0 THEN [next |-> a, key |-> <<"Any">>]
        ELSE IF i <= Len(s) /\ is_alpha(s[i])
        THEN [next |-> i + 1, key |-> <<"Key", s[i]>>]
        ELSE [next |-> 0, key |-> <<>>]

\* TerminalKey::parse_stop_autoboot (terminal_key.rs 21-72)
parse_stop_autoboot(s) ==
    LET h == IF tag(s, 1, <<"h", "i", "t">>) # 0 THEN tag(s, 1, <<"h", "i", "t">>)
             ELSE tag(s, 1, <<"p", "r", "e", "s", "s">>)
        k == IF space1(s, h) = 0 THEN [next |-> 0, key |-> <<>>]
             ELSE KeyAt(s, space1(s, h))
        t == tag(s, space1(s, k.next), <<"t", "o">>)
        p == tag(s, space1(s, t), <<"s", "t", "o", "p">>)
        e == tag(s, space1(s, p), <<"a", "u", "t", "o", "b", "o", "o", "t">>)
    IN  [ok |-> e # 0, key |-> k.key]

\* TerminalKey::encode (terminal_key.rs 11-19) as the payload sent
Encode(key) ==
    CASE key[1] = "Any" -> <<"a">>
      [] key[1] = "Key" -> <<key[2]>>
      [] key[1] = "Ctrl" -> <<"raw", TerminalKeyEncodeCtrl(key[2])>>

\* lines of the console during start-up
BannerAnyKey ==
    <<"H", "i", "t", " ", "a", "n", "y", " ", "k", "e", "y", " ", "t", "o",
      " ", "s", "t", "o", "p", " ", "a", "u", "t", "o", "b", "o", "o", "t",
      ":", " ", " ", "1", CR>>

BannerCtrlC ==
    <<"H", "i", "t", " ", "c", "t", "r", "l", "+", "c", " ", "t", "o", " ",
      "s", "t", "o", "p", " ", "a", "u", "t", "o", "b", "o", "o", "t", ":",
      " ", " ", "0", CR>>

\* a prompt to press a key that was flushed without its line end
BannerKeyOpen ==
    <<"P", "r", "e", "s", "s", " ", "d", " ", "t", "o", " ", "s", "t", "o",
      "p", " ", "a", "u", "t", "o", "b", "o", "o", "t">>

VersionLine ==
    <<"U", "-", "B", "o", "o", "t", " ", "2", "0", "1", "0", ".", "0", "6",
      CR>>

ShellLines ==
    {BannerAnyKey, BannerCtrlC, BannerKeyOpen, VersionLine, PromptLine,
     NonUtf8Line}

(* Bounds of the model *)

\* lines shell_presence receives
MaxShellLines == 3

ShellOk(line) == [kind |-> "Ok", line |-> line]
ShellErr(msg) == [kind |-> msg, line |-> <<>>]
ShellRunning == [kind |-> "running", line |-> <<>>]

\* shell_presence has not been called; got: the lines received with the
\* phase each was read in; event: the phase and kind of the last thing the
\* line stream gave
ShellIdle ==
    [pc |-> "idle", sent |-> <<>>, got |-> <<>>, event |-> <<>>, up |-> TRUE,
     result |-> ShellRunning]

\* lib.rs 171 and 197: a line that does not end in \r is the prompt
AnyLineIsPrompt(line) == TRUE

IsPrompt(line) == ~ends_with_cr(line)

\* lib.rs 176 and 202: the per-line timeout ends the first phase and fails
\* the last one
OnTimeoutAlwaysProceeds(phase) ==
    [pc |-> "phase2", result |-> ShellRunning]

OnTimeout(phase) ==
    IF phase = "phase1" THEN [pc |-> "phase2", result |-> ShellRunning]
    ELSE [pc |-> "done", result |-> ShellErr("PromptTimeout")]

\* lib.rs 158-165: Ctrl-C, a fresh line stream, the empty command
ShStart ==
    /\ shell.pc = "start"
    /\ shell' = IF shell.up
                THEN [shell EXCEPT !.pc = "phase1",
                                   !.sent = <<CtrlC, CmdPayload(<<>>)>>]
                ELSE [shell EXCEPT !.pc = "done", !.result = ShellErr("Send")]
    /\ UNCHANGED <<linesVars, dumpVars, wait, transportVars, query, calc, cli>>

\* what the interception loop does with a line (lib.rs 181-190)
Intercept(sh, line) ==
    IF ~IsUtf8(line) THEN sh
    ELSE IF parse_stop_autoboot(line).ok
    THEN [sh EXCEPT !.sent = @ \o <<CtrlC, Encode(parse_stop_autoboot(line).key)>>,
                    !.pc = "phase3"]
    ELSE [sh EXCEPT !.sent = Append(@, CtrlC)]

\* the line stream yields a line (lib.rs 170-174, 180-191, 196-200)
ShLine(line) ==
    /\ shell.pc \in {"phase1", "phase2", "phase3"}
    /\ shell.up
    /\ Len(shell.got) < MaxShellLines
    /\ LET sh == [shell EXCEPT !.got = Append(@, <<shell.pc, line>>),
                               !.event = <<shell.pc, "line">>]
       IN  shell' = IF shell.pc = "phase2" THEN Intercept(sh, line)
                    ELSE IF IsPrompt(line)
                    THEN [sh EXCEPT !.pc = "done", !.result = ShellOk(line)]
                    ELSE sh
    /\ UNCHANGED <<linesVars, dumpVars, wait, transportVars, query, calc, cli>>

\* a timeout that also ends the wait of the interception loop
ShTimeoutAnyPhase ==
    /\ shell.pc \in {"phase1", "phase2", "phase3"}
    /\ shell.up
    /\ shell' = [shell EXCEPT !.pc = OnTimeout(shell.pc).pc,
                              !.result = OnTimeout(shell.pc).result,
                              !.event = <<shell.pc, "timeout">>]
    /\ UNCHANGED <<linesVars, dumpVars, wait, transportVars, query, calc, cli>>

\* no line for TIMEOUT in a prompt-reading phase (lib.rs 176, 202); the
\* interception loop waits without a timeout
ShTimeout ==
    /\ shell.pc \in {"phase1", "phase3"}
    /\ shell.up
    /\ shell' = [shell EXCEPT !.pc = OnTimeout(shell.pc).pc,
                              !.result = OnTimeout(shell.pc).result,
                              !.event = <<shell.pc, "timeout">>]
    /\ UNCHANGED <<linesVars, dumpVars, wait, transportVars, query, calc, cli>>

\* the line stream has ended (lib.rs 175, 180, 201): an error in the
\* prompt-reading phases, the end of the interception loop
ShEof ==
    /\ shell.pc \in {"phase1", "phase2", "phase3"}
    /\ ~shell.up
    /\ shell' = IF shell.pc = "phase2"
                THEN [shell EXCEPT !.pc = "phase3", !.event = <<shell.pc, "eof">>]
                ELSE [shell EXCEPT !.pc = "done", !.result = ShellErr("Eof"),
                                   !.event = <<shell.pc, "eof">>]
    /\ UNCHANGED <<linesVars, dumpVars, wait, transportVars, query, calc, cli>>

\* the transport task ends on a port read error (lib.rs 90-92)
ShTransportDies ==
    /\ shell.pc \notin {"idle", "done"}
    /\ shell.up
    /\ shell' = [shell EXCEPT !.up = FALSE]
    /\ UNCHANGED <<linesVars, dumpVars, wait, transportVars, query, calc, cli>>

----------------------------------------------------------------------------
(* Functions applied on their own: size_u64 (parse_utils.rs)                *)

\* no function has been applied
CalcIdle == [fn |-> "idle"]

\* val * m + a on a u64 kept as sixteen hex digits, with the carry out of
\* the top digit (the part a wrapping multiplication loses)
MulAdd(val, m, a) ==
    LET c[i \in 0..16] == IF i = 16 THEN a ELSE (val[i + 1] * m + c[i + 1]) \div 16
    IN  [val |-> SubSeq([i \in 1..16 |-> (val[i] * m + c[i]) % 16], 1, 16),
         lost |-> c[0] # 0]

\* dec_u64 (parse_utils.rs 57-59): fold_many1(hex_dig, 0, val * 10 + dig)
\* over the n digits from position i
dec_u64(s, i, n) ==
    LET f[k \in 0..n] ==
            IF k = 0 THEN [val |-> U64Zero, lost |-> FALSE]
            ELSE CHOOSE x \in
                    {[val |-> MulAdd(p.val, 10, hex_dig(s[i + k - 1])).val,
                      lost |-> p.lost \/ MulAdd(p.val, 10, hex_dig(s[i + k - 1])).lost] :
                        p \in {f[k - 1]}} : TRUE
    IN  f[n]

\* units_mul (parse_utils.rs 62-73): an optional k or m, an optional b
units_mul(s, i) ==
    LET k == tag(s, i, <<"k">>)
        m == tag(s, i, <<"m">>)
        u == IF k # 0 THEN k ELSE IF m # 0 THEN m ELSE i
        b == tag(s, u, <<"b">>)
    IN  [mul |-> IF k # 0 THEN 1024 ELSE IF m # 0 THEN 1048576 ELSE 1,
         next |-> IF b # 0 THEN b ELSE u]

\* dec_u64_units (parse_utils.rs 76-78): val * mul; panics: the arithmetic
\* overflowed, which a build with overflow checks turns into a panic
dec_u64_units(s, i) ==
    LET n == HexRun(s, i)
        u == units_mul(s, i + n)
    IN  IF n = 0 THEN [ok |-> FALSE, val |-> U64Zero, next |-> i, lost |-> FALSE,
                       panics |-> FALSE]
        ELSE CHOOSE x \in
                {[ok |-> TRUE, val |-> r.val, next |-> u.next,
                  lost |-> d.lost \/ r.lost, panics |-> d.lost \/ r.lost] :
                    d \in {dec_u64(s, i, n)},
                    r \in {MulAdd(dec_u64(s, i, n).val, u.mul, 0)}} : TRUE

\* hex_u64_0x (parse_utils.rs 52-54); the shift of hex_u64 drops the digits
\* before the last sixteen without a check in any build
hex_u64_0x(s, i) ==
    LET x == tag(s, i, <<"0", "x">>)
        h == hex_u64(s, x)
        n == HexRun(s, x)
    IN  IF x = 0 \/ ~h.ok
        THEN [ok |-> FALSE, val |-> U64Zero, next |-> i, lost |-> FALSE,
              panics |-> FALSE]
        ELSE [ok |-> TRUE, val |-> h.val, next |-> h.next,
              lost |-> \E k \in 0..(n - 17) : hex_dig(s[x + k]) # 0,
              panics |-> FALSE]

\* size_u64 (parse_utils.rs 81-83): alt((hex_u64_0x, dec_u64_units))
size_u64(s, i) ==
    CHOOSE x \in {IF h.ok THEN h ELSE dec_u64_units(s, i) : h \in {hex_u64_0x(s, i)}} : TRUE

\* Variables::get_u32 (variables.rs 17-23) on a parsed value
get_u32(r) == r.ok /\ \A i \in 1..8 : r.val[i] = 0

(* Bounds of the model *)

\* digits of a decimal size literal
MaxDigits == 2

DecStrings == UNION {[1..n -> {"0", "1", "6", "9"}] : n \in 1..MaxDigits}

\* a digit string with an optional magnitude and an optional b
SizeForms ==
    [d : DecStrings,
     unit : {<<>>, <<"k">>, <<"K">>, <<"m">>, <<"M">>},
     b : {<<>>, <<"b">>, <<"B">>}]

SizeLiterals ==
    {<<"0", "x", "1", "0", "0">>,
     <<"0", "X", "1", "f">>,
     <<"6", "4", "K", "B">>,
     <<"8", "M">>,
     <<"1", "6">>,
     <<"0", "x", "f", "f", "f", "f", "f", "f", "f", "f", "f", "f", "f", "f", "f", "f", "f", "f">>,
     <<"0", "x", "1", "0", "0", "0", "0", "0", "0", "0", "0", "0", "0", "0", "0", "0", "0", "0", "0">>,
     <<"1", "8", "4", "4", "6", "7", "4", "4", "0", "7", "3", "7", "0", "9", "5", "5", "1", "6", "1", "5">>,
     <<"1", "8", "4", "4", "6", "7", "4", "4", "0", "7", "3", "7", "0", "9", "5", "5", "1", "6", "1", "6">>,
     <<"1", "8", "0", "1", "4", "3", "9", "8", "5", "0", "9", "4", "8", "1", "9", "8", "4", "k">>,
     <<"4", "2", "9", "4", "9", "6", "7", "2", "9", "5">>,
     <<"4", "2", "9", "4", "9", "6", "7", "2", "9", "6">>,
     <<"0", "x", "g">>,
     <<"k">>}

\* overflow checks on (debug) or off (release)
Builds == {"debug", "release"}

\* size_u64 is applied to a literal; form: its parts when it is a digit
\* string with units, <<>> otherwise
CalcSize(text, form, build) ==
    /\ calc.fn = "idle"
    /\ \E r \in {size_u64(text, 1)} :
          calc' = [fn |-> "size", in |-> text, form |-> form, build |-> build,
                   lost |-> r.lost,
                   out |-> IF r.panics /\ build = "debug"
                           THEN [kind |-> "panic", val |-> U64Zero, u32 |-> FALSE]
                           ELSE IF r.ok
                           THEN [kind |-> "ok", val |-> r.val, u32 |-> get_u32(r)]
                           ELSE [kind |-> "error", val |-> U64Zero, u32 |-> FALSE]]
    /\ UNCHANGED <<linesVars, dumpVars, wait, transportVars, shell, query, cli>>

\* format!("{:#08x}", v): 0x and the lower-case hex digits of v, padded
\* with zeros to a width of 8 that counts the 0x
Fmt08x(v) ==
    LET sig == {i \in 1..16 : v[i] # 0}
        n == IF sig = {} THEN 1 ELSE 17 - (CHOOSE i \in sig : \A j \in sig : i <= j)
        w == IF n + 2 < 8 THEN 8 - 2 ELSE n
    IN  <<"0", "x">> \o [k \in 1..w |-> HexDigits[v[16 - w + k] + 1]]

\* the commands with numeric arguments (lib.rs 384-387, 398, 440)
CmdNames ==
    {<<"s", "f", " ", "r", "e", "a", "d">>, <<"c", "r", "c", "3", "2">>, <<"m", "d", ".", "b">>}

RECURSIVE FormatCmd(_, _)
FormatCmd(name, args) ==
    IF args = <<>> THEN name
    ELSE FormatCmd(name \o <<" ">> \o Fmt08x(Head(args)), Tail(args))

\* addresses, bases and sizes below 2^32
FormatValues ==
    {[i \in 1..16 |-> IF i < 9 THEN 0 ELSE d[i - 8]] :
        d \in {<<0, 0, 0, 0, 0, 0, 0, 0>>, <<0, 0, 0, 0, 0, 0, 4, 0>>,
                <<0, 0, 10, 11, 12, 13, 14, 15>>, <<0, 1, 0, 0, 0, 0, 0, 0>>,
                <<4, 2, 0, 0, 0, 0, 0, 0>>, <<15, 15, 15, 15, 15, 15, 15, 15>>}}

\* a command line is formatted: sf read with three arguments, crc32 and
\* md.b with two
CalcFormat(name, args) ==
    /\ calc.fn = "idle"
    /\ Len(args) = IF name[1] = "s" THEN 3 ELSE 2
    /\ calc' = [fn |-> "format", in |-> [name |-> name, args |-> args],
                out |-> FormatCmd(name, args)]
    /\ UNCHANGED <<linesVars, dumpVars, wait, transportVars, shell, query, cli>>

\* the line md.b prints for the bytes b (hex_dump.rs 47-79): the address, a
\* space and two hex digits per byte, three spaces per missing byte, four
\* spaces, the bytes as characters (a dot for a byte that does not print)
RenderLine(b) ==
    LET hex == [k \in 1..(3 * Len(b)) |->
                   CASE k % 3 = 1 -> " "
                     [] k % 3 = 2 -> HexDigits[(b[(k + 2) \div 3] \div 16) + 1]
                     [] OTHER -> HexDigits[(b[k \div 3] % 16) + 1]]
        gutter == [k \in 1..Len(b) |->
                      CASE b[k] = 49 -> "1" [] b[k] = 97 -> "a" [] OTHER -> "."]
    IN  <<"4", "2", "0", "0", "0", "0", "0", "0", ":">>
            \o hex \o [k \in 1..(3 * (16 - Len(b)) + 4) |-> " "] \o gutter \o <<CR>>

\* the line of test parse_overflow (hex_dump.rs 86): sixteen pairs, a gap, 1a
OverflowGapLine ==
    <<"4", "2", "0", "0", "0", "0", "0", "0", ":", " ", "1", "5", " ", "0",
      "5", " ", "0", "0", " ", "e", "a", " ", "f", "e", " ", "f", "f", " ",
      "f", "f", " ", "e", "a", " ", "f", "e", " ", "f", "f", " ", "f", "f",
      " ", "e", "a", " ", "f", "e", " ", "f", "f", " ", "f", "f", " ", "e",
      "a", " ", " ", " ", " ", "1", "a", " ", ".", ".", ".", ".", ".", ".",
      ".", ".", ".", ".", ".", ".", ".", CR>>

(* Bounds of the model *)

\* bytes of a line in every combination
MaxRender == 3

\* bytes that print as a hex digit, as another digit, or as a dot
ByteSamples == <<0, 49, 97, 255>>

DumpBytes ==
    UNION {[1..n -> {ByteSamples[j] : j \in 1..4}] : n \in 0..MaxRender}
        \cup {[i \in 1..n |-> ByteSamples[((i + k) % 4) + 1]] : n \in 0..16, k \in 0..3}

\* HexDump::parse_line is applied to a line; bytes: what the line was
\* rendered from, <<-1>> for a line given as it is
CalcHexLine(line, bytes) ==
    /\ calc.fn = "idle"
    /\ calc' = [fn |-> "hexdump", in |-> line, bytes |-> bytes,
                out |-> parse_line(line)]
    /\ UNCHANGED <<linesVars, dumpVars, wait, transportVars, shell, query, cli>>

\* str::trim_end: the text without its trailing white space
RECURSIVE trim_end(_)
trim_end(t) ==
    IF t # <<>> /\ Last(t) \in {" ", "\t", LF, CR}
    THEN trim_end(SubSeq(t, 1, Len(t) - 1)) ELSE t

\* take_till(|c| c == sep) from position i: the position of the first sep,
\* or behind the text
take_till(s, i, sep) ==
    IF \E k \in i..Len(s) : s[k] = sep
    THEN CHOOSE k \in i..Len(s) : s[k] = sep /\ \A j \in i..(k - 1) : s[j] # sep
    ELSE Len(s) + 1

\* IndexMap::insert that moves a key written again to the end
InsertMoveToEnd(m, key, value) ==
    SelectSeq(m, LAMBDA e : e[1] # key) \o << <<key, value>> >>

\* IndexMap::insert (variables.rs 122): a known key keeps its place and
\* gets the value, a new key goes to the end
Insert(m, key, value) ==
    IF \E p \in 1..Len(m) : m[p][1] = key
    THEN [p \in 1..Len(m) |-> IF m[p][1] = key THEN <<key, value>> ELSE m[p]]
    ELSE Append(m, <<key, value>>)

\* Variables::_extend_parse (variables.rs 94-125) on the map m
extend_parse(m, s, kv_sep, ent_sep) ==
    LET k == space0(s, 1)
        e == take_till(s, k, kv_sep)
        v == space0(s, e + 1)
    IN  IF e > Len(s) THEN [ok |-> FALSE, vars |-> m]
        ELSE [ok |-> TRUE,
              vars |-> Insert(m, trim_end(SubSeq(s, k, e - 1)),
                              trim_end(SubSeq(s, v, take_till(s, v, ent_sep) - 1)))]

\* Variables::extend_parse_env (variables.rs 90-92)
extend_parse_env(m, s) == extend_parse(m, s, "=", CR)

\* lines of printenv and bdinfo
EnvLines ==
    <<<<" ", "b", "a", "u", "d", "r", "a", "t", "e", " ", "=", "1", "1", "5", "2", "0", "0", CR>>,
      <<"b", "a", "u", "d", "r", "a", "t", "e", "=", "9", "6", "0", "0", CR>>,
      <<"b", "o", "o", "t", "a", "r", "g", "s", "=", "a", "=", "b", " ", "c", " ", CR>>,
      <<"b", "o", "o", "t", "d", "e", "l", "a", "y", "=", "0">>,
      <<"p", "r", "i", "n", "t", "e", "n", "v", CR>>,
      <<"-", ">", " ", "s", "t", "a", "r", "t", " ", " ", " ", " ", "=", " ", "0", "x", "4", "0", "0", "0", "0", "0", "0", "0", CR>>>>

(* Bounds of the model *)

\* lines folded into one Variables
MaxEnvLines == 3

\* one more line is folded into the Variables
CalcEnv(line) ==
    /\ calc.fn \in {"idle", "env"}
    /\ LET h == IF calc.fn = "idle" THEN <<>> ELSE calc.in
           m == IF calc.fn = "idle" THEN <<>> ELSE calc.out
       IN  /\ Len(h) < MaxEnvLines
           /\ calc' = [fn |-> "env", in |-> Append(h, line),
                       out |-> extend_parse_env(m, line).vars]
    /\ UNCHANGED <<linesVars, dumpVars, wait, transportVars, shell, query, cli>>

\* the number a u64 below 2^28 stands for
IntOf(val) ==
    LET f[i \in 9..16] == IF i = 9 THEN 0 ELSE f[i - 1] * 16 + val[i]
    IN  f[16]

\* separated_list0(char(','), size_u64 '(' name ')') from position i
\* (variables.rs 56-64), first: no separator before the first partition;
\* the list ends, without an error, where a partition does not parse
RECURSIVE mtd_list(_, _, _)
mtd_list(s, i, first) ==
    LET at == IF first THEN i ELSE i + 1
        z == size_u64(s, at)
        close == take_till(s, z.next + 1, ")")
    IN  IF /\ first \/ (i <= Len(s) /\ s[i] = ",")
           /\ at <= Len(s) /\ z.ok
           /\ z.next <= Len(s) /\ s[z.next] = "("
           /\ close <= Len(s)
        THEN << <<SubSeq(s, z.next + 1, close - 1), IntOf(z.val)>> >>
                \o mtd_list(s, close + 1, FALSE)
        ELSE <<>>

\* the scan and the collect of parse_mtd_parts (variables.rs 73-83): each
\* region starts where the one before it ends and is inserted by its name
RECURSIVE mtd_collect(_, _, _)
mtd_collect(parts, offset, table) ==
    IF parts = <<>> THEN table
    ELSE mtd_collect(Tail(parts), offset + Head(parts)[2],
                     Insert(table, Head(parts)[1],
                            [base |-> offset, size |-> Head(parts)[2]]))

\* Variables::parse_mtd_parts (variables.rs 41-84)
parse_mtd_parts(s) ==
    LET colon == take_till(s, 1, ":")
    IN  IF colon > Len(s) THEN [ok |-> FALSE, table |-> <<>>]
        ELSE [ok |-> TRUE, table |-> mtd_collect(mtd_list(s, colon + 1, TRUE), 0, <<>>)]

(* Bounds of the model *)

\* partitions of an mtdparts list
MaxParts == 3

\* a partition as it is written, with the size it stands for
MtdParts ==
    [size : {<<<<"0", "x", "4", "0", "0", "0", "0">>, 262144>>, <<<<"6", "4", "k">>, 65536>>, <<<<"1", "M">>, 1048576>>},
     name : {<<"b", "o", "o", "t">>, <<"e", "n", "v">>}]

\* the text of an mtdparts list
RECURSIVE MtdText(_)
MtdText(parts) ==
    IF parts = <<>> THEN <<"h", "i", "_", "s", "f", "c", ":">>
    ELSE MtdText(SubSeq(parts, 1, Len(parts) - 1))
            \o (IF Len(parts) > 1 THEN <<",">> ELSE <<>>)
            \o Last(parts).size[1] \o <<"(">> \o Last(parts).name \o <<")">>

\* parse_mtd_parts is applied to a list
CalcMtdParts(parts) ==
    /\ calc.fn = "idle"
    /\ calc' = [fn |-> "mtd", in |-> MtdText(parts), parts |-> parts,
                out |-> parse_mtd_parts(MtdText(parts))]
    /\ UNCHANGED <<linesVars, dumpVars, wait, transportVars, shell, query, cli>>

\* prompts that name a key
KeyForms ==
    [verb : {<<"H", "i", "t">>, <<"p", "r", "e", "s", "s">>},
     key : {"ctrl-", "Ctrl+", "", "any"},
     letter : {UpperLetters[i] : i \in 1..26} \cup {LowerLetters[i] : i \in 1..26}]

KeyText(f) ==
    f.verb \o <<" ">>
        \o (CASE f.key = "ctrl-" -> <<"c", "t", "r", "l", "-">> \o <<f.letter>>
              [] f.key = "Ctrl+" -> <<"C", "t", "r", "l", "+">> \o <<f.letter>>
              [] f.key = "any" -> <<"a", "n", "y", " ", "k", "e", "y">>
              [] OTHER -> <<f.letter>>)
        \o <<" ", "t", "o", " ", "s", "t", "o", "p", " ", "a", "u", "t", "o", "b", "o", "o", "t">>

\* parse_stop_autoboot and encode are applied to a prompt
CalcKey(f) ==
    /\ calc.fn = "idle"
    /\ LET r == parse_stop_autoboot(KeyText(f))
       IN  calc' = [fn |-> "key", in |-> KeyText(f), form |-> f,
                    out |-> [ok |-> r.ok, key |-> r.key,
                             bytes |-> IF r.ok THEN Encode(r.key) ELSE <<>>]]
    /\ UNCHANGED <<linesVars, dumpVars, wait, transportVars, shell, query, cli>>

----------------------------------------------------------------------------
(* The queries: get_version, get_flash_info, get_environ, get_bdinfo        *)
(* (lib.rs 208-330) and the parsers their lines are handed to               *)

IsDecDig(c) == \E i \in 1..10 : HexDigits[i] = c

\* the number of leading decimal digits of s from position i
RECURSIVE DecRun(_, _)
DecRun(s, i) == IF i <= Len(s) /\ IsDecDig(s[i]) THEN 1 + DecRun(s, i + 1) ELSE 0

\* nom's u16 and u8 at position i: the decimal digits there, an error
\* without a digit or with a value above max; a failed parser before it
\* (i = 0) fails it too
dec_uint(s, i, max) ==
    LET n == IF i = 0 THEN 0 ELSE DecRun(s, i)
        f[k \in 0..n] ==
            IF k = 0 THEN 0
            ELSE CHOOSE x \in
                    {IF p = -1 \/ p * 10 + hex_dig(s[i + k - 1]) > max
                     THEN -1 ELSE p * 10 + hex_dig(s[i + k - 1]) :
                        p \in {f[k - 1]}} : TRUE
    IN  IF n = 0 \/ f[n] = -1 THEN [ok |-> FALSE, val |-> 0, next |-> 0]
        ELSE [ok |-> TRUE, val |-> f[n], next |-> i + n]

\* the number of leading letters and digits of s from position i
RECURSIVE AlnumRun(_, _)
AlnumRun(s, i) ==
    IF i <= Len(s) /\ (is_alpha(s[i]) \/ IsDecDig(s[i]))
    THEN 1 + AlnumRun(s, i + 1) ELSE 0

\* opt(tuple((char('-'), alphanumeric1))) at position i
\* (version_info.rs 32-39)
OptSuffix(s, i) ==
    LET n == IF i <= Len(s) /\ s[i] = "-" THEN AlnumRun(s, i + 1) ELSE 0
    IN  IF n = 0 THEN [text |-> <<>>, next |-> i]
        ELSE [text |-> SubSeq(s, i + 1, i + n), next |-> i + n + 1]

\* VersionInfo::parse (version_info.rs 12-53)
VersionInfo_parse(s) ==
    LET v == space1(s, tag(s, 1, <<"v", "e", "r", "s", "i", "o", "n", ":">>))
        u == space1(s, tag(s, IF v # 0 THEN v ELSE 1,
                           <<"u", "-", "b", "o", "o", "t">>))
        y == dec_uint(s, u, 65535)
        dot == IF y.ok /\ y.next <= Len(s) /\ s[y.next] = "." THEN y.next + 1 ELSE 0
        m == dec_uint(s, dot, 255)
        r == OptSuffix(s, m.next)
        x == OptSuffix(s, r.next)
    IN  IF ~m.ok THEN [ok |-> FALSE]
        ELSE [ok |-> TRUE, year |-> y.val, month |-> m.val,
              revision |-> r.text, suffix |-> x.text]

\* FlashKind::parse (flash_info.rs 29-43)
FlashKind_parse(s) ==
    IF tag(s, 1, <<"s", "p", "i">>) # 0 THEN [ok |-> TRUE, kind |-> "Spi"]
    ELSE IF tag(s, 1, <<"n", "a", "n", "d">>) # 0 THEN [ok |-> TRUE, kind |-> "Nand"]
    ELSE [ok |-> FALSE, kind |-> ""]

\* FlashInfo::from_kind (flash_info.rs 71-76); block and size are u32, kept
\* as eight hex digits
from_kind(kind) ==
    [kind |-> kind, block |-> AsU32(U64Zero), size |-> AsU32(U64Zero),
     count |-> 0, id |-> <<0, 0, 0>>, name |-> <<>>]

\* hex_u8_0x (parse_utils.rs 42-44); a failed parser before it (i = 0)
\* fails it too
hex_u8_0x(s, i) ==
    LET x == tag(s, i, <<"0", "x">>)
    IN  IF x = 0 THEN [ok |-> FALSE, val |-> 0, next |-> 0] ELSE hex_u8(s, x)

\* the parser of fill_parse (flash_info.rs 95-123): the Data of a line
FillData(s) ==
    LET no == [ok |-> FALSE, val |-> U64Zero, next |-> 0]
        b == tag(s, 1, <<"b", "l", "o", "c", "k", ":">>)
        bs == IF b = 0 THEN no ELSE size_u64(s, b)
        c == IF bs.ok THEN tag(s, space1(s, bs.next), <<"c", "h", "i", "p", ":">>) ELSE 0
        cs == IF c = 0 THEN no ELSE size_u64(s, c)
        n == IF cs.ok /\ cs.next <= Len(s) /\ s[cs.next] = "*"
             THEN dec_uint(s, cs.next + 1, 65535) ELSE no
        i1 == hex_u8_0x(s, tag(s, 1, <<"i", "d", ":">>))
        i2 == hex_u8_0x(s, IF i1.ok THEN space1(s, i1.next) ELSE 0)
        i3 == hex_u8_0x(s, IF i2.ok THEN space1(s, i2.next) ELSE 0)
        nm == tag(s, 1, <<"n", "a", "m", "e", ":", "\"">>)
        q == IF nm = 0 THEN 0 ELSE take_till(s, nm, "\"")
    IN  IF cs.ok
        THEN [ok |-> TRUE, is |-> "Size", block |-> AsU32(bs.val),
              size |-> AsU32(cs.val), count |-> IF n.ok THEN n.val ELSE 1]
        ELSE IF i3.ok
        THEN [ok |-> TRUE, is |-> "Id", id |-> <<i1.val, i2.val, i3.val>>]
        ELSE IF nm # 0 /\ nm < q /\ q <= Len(s)
        THEN [ok |-> TRUE, is |-> "Name", name |-> SubSeq(s, nm, q - 1)]
        ELSE [ok |-> FALSE, is |-> ""]

\* a merge that starts from an empty FlashInfo
FillMergeFromDefault(info, d) ==
    LET e == [kind |-> "Spi", block |-> AsU32(U64Zero), size |-> AsU32(U64Zero),
              count |-> 0, id |-> <<0, 0, 0>>, name |-> <<>>]
    IN  CASE d.is = "Size" ->
               [e EXCEPT !.block = d.block, !.size = d.size, !.count = d.count]
          [] d.is = "Id" -> [e EXCEPT !.id = d.id]
          [] d.is = "Name" -> [e EXCEPT !.name = d.name]

\* the match of fill_parse (flash_info.rs 128-141): the Data is written into
\* the FlashInfo
FillMerge(info, d) ==
    CASE d.is = "Size" ->
           [info EXCEPT !.block = d.block, !.size = d.size, !.count = d.count]
      [] d.is = "Id" -> [info EXCEPT !.id = d.id]
      [] d.is = "Name" -> [info EXCEPT !.name = d.name]

\* FlashInfo::fill_parse (flash_info.rs 78-144) on the record info
fill_parse(info, s) ==
    IF FillData(s).ok THEN [ok |-> TRUE, info |-> FillMerge(info, FillData(s))]
    ELSE [ok |-> FALSE, info |-> info]

\* lines a device answers a query with
SpiLine == <<"s", "p", "i", CR>>

BlockLine ==
    <<"B", "l", "o", "c", "k", ":", "6", "4", "K", "B", " ",
      "C", "h", "i", "p", ":", "8", "M", "B", "*", "1", CR>>

IdLine ==
    <<"I", "D", ":", "0", "x", "A", "1", " ", "0", "x", "4", "0", " ",
      "0", "x", "1", "7", CR>>

NameLine == <<"N", "a", "m", "e", ":", "\"", "X", "M", "\"", CR>>

VersionOpen ==
    <<"U", "-", "B", "o", "o", "t", " ", "2", "0", "2", "0", ".", "0", "9">>

QueryLines ==
    {VersionLine, VersionOpen, SpiLine, BlockLine, IdLine, NameLine,
     EnvLines[2], EnvLines[4], PromptLine, NonUtf8Line}

\* version banners: with or without `version: `, a month field, with or
\* without revision and suffix
MonthTexts ==
    {<<"0">>, <<"0", "0">>, <<"1">>, <<"0", "6">>, <<"1", "2">>, <<"1", "3">>,
     <<"9", "9">>, <<"2", "5", "5">>, <<"2", "5", "6">>}

VersionForms ==
    [pre : {<<>>, <<"v", "e", "r", "s", "i", "o", "n", ":", " ">>},
     month : MonthTexts,
     sfx : {<<>>, <<"-", "g", "2", "f", "c", "5", "f", "5", "8", "-", "d", "i", "r", "t", "y">>}]

VersionText(f) ==
    f.pre \o <<"U", "-", "B", "o", "o", "t", " ", "2", "0", "1", "6", ".">> \o f.month \o f.sfx \o <<CR>>

\* VersionInfo::parse is applied to a banner
CalcVersion(f) ==
    /\ calc.fn = "idle"
    /\ calc' = [fn |-> "version", in |-> VersionText(f), form |-> f,
                out |-> VersionInfo_parse(VersionText(f))]
    /\ UNCHANGED <<linesVars, dumpVars, wait, transportVars, shell, query, cli>>

\* lines fill_parse is applied to, each with the Data it stands for: is,
\* whether `*n` is present, the count, the id or the name
FillForms ==
    {[text |-> BlockLine, is |-> "Size", star |-> TRUE, count |-> 1],
     [text |-> <<"B", "l", "o", "c", "k", ":", "6", "4", "K", "B", " ", "C", "h", "i", "p", ":", "8", "M", "B", CR>>, is |-> "Size", star |-> FALSE, count |-> 1],
     [text |-> <<"b", "l", "o", "c", "k", ":", "0", "x", "1", "0", "0", "0", "0", " ", "c", "h", "i", "p", ":", "0", "x", "8", "0", "0", "0", "0", "0", "*", "2", CR>>, is |-> "Size", star |-> TRUE, count |-> 2],
     [text |-> <<"B", "l", "o", "c", "k", ":", "6", "4", "K", "B", " ", "C", "h", "i", "p", ":", "4", "0", "9", "6", "M", "B", "*", "1", CR>>, is |-> "Size", star |-> TRUE, count |-> 1],
     [text |-> IdLine, is |-> "Id", id |-> <<161, 64, 23>>],
     [text |-> NameLine, is |-> "Name", name |-> <<"X", "M">>],
     [text |-> <<"I", "D", ":", "0", "x", "A", "1", " ", "0", "x", "4", "0", CR>>, is |-> "Other"],
     [text |-> <<"B", "l", "o", "c", "k", ":", "6", "4", "K", "B", CR>>, is |-> "Other"],
     [text |-> <<"N", "a", "m", "e", ":", "\"", "\"", CR>>, is |-> "Other"],
     [text |-> PromptLine, is |-> "Other"],
     [text |-> EnvLines[2], is |-> "Other"]}

\* the FlashInfo fill_parse is applied to: fresh, or with every field set
FillInfos ==
    {from_kind("Nand"),
     [kind |-> "Nand", block |-> <<0, 0, 0, 0, 1, 0, 0, 0>>,
      size |-> <<0, 0, 1, 0, 0, 0, 0, 0>>, count |-> 3, id |-> <<1, 2, 3>>,
      name |-> <<"Z", "Z">>]}

\* fill_parse is applied to a FlashInfo and a line
CalcFill(info, f) ==
    /\ calc.fn = "idle"
    /\ calc' = [fn |-> "fill", in |-> [info |-> info, text |-> f.text],
                form |-> f, out |-> fill_parse(info, f.text)]
    /\ UNCHANGED <<linesVars, dumpVars, wait, transportVars, shell, query, cli>>

(* Bounds of the model *)

\* lines one query reads
MaxQueryLines == 3

QueryKinds == {"get_version", "get_flash_info", "get_environ", "get_bdinfo"}

\* the command a query sends first (lib.rs 212, 237, 287, 312)
QueryCmd(kind) ==
    IF kind = "get_version"
    THEN <<"g", "e", "t", "i", "n", "f", "o", " ", "v", "e", "r", "s", "i", "o", "n">>
    ELSE IF kind = "get_flash_info"
    THEN <<"g", "e", "t", "i", "n", "f", "o", " ", "b", "o", "o", "t", "m", "o", "d", "e">>
    ELSE IF kind = "get_environ" THEN <<"p", "r", "i", "n", "t", "e", "n", "v">>
    ELSE <<"b", "d", "i", "n", "f", "o">>

\* the command of the second phase of get_flash_info (lib.rs 256-260)
GetinfoCmd(kind) ==
    IF kind = "Spi" THEN <<"g", "e", "t", "i", "n", "f", "o", " ", "s", "p", "i">>
    ELSE <<"g", "e", "t", "i", "n", "f", "o", " ", "n", "a", "n", "d">>

QueryOk(val) == [kind |-> "ok", val |-> val]
QueryErr(why) == [kind |-> "err", val |-> why]
QueryRunning == [kind |-> "none", val |-> <<>>]

\* no query has been sent
QueryIdle ==
    [pc |-> "idle", kind |-> "", up |-> TRUE, sent |-> <<>>, got |-> <<>>,
     parsed |-> <<>>, acc |-> <<>>, event |-> <<>>, result |-> QueryRunning]

\* every line that is valid UTF-8 is a data line
AnyUtf8Line(line) == IsUtf8(line)

\* a data line ends in \r and is valid UTF-8 (lib.rs 217-218, 242-243,
\* 267-268, 292-293, 317-318)
IsDataLine(line) == ends_with_cr(line) /\ IsUtf8(line)

\* what a collecting loop does with a data line; the parser's error is
\* dropped (lib.rs 270, 294, 319)
QueryFold(kind, acc, line) ==
    IF kind = "get_flash_info" THEN fill_parse(acc, line).info
    ELSE extend_parse_env(acc, line).vars

\* a query starts: a fresh line stream and its command (lib.rs 209-212,
\* 234-237, 284-288, 309-313)
QStart(kind) ==
    /\ query.pc \in {"idle", "done"}
    /\ query' = IF query.up
                THEN [QueryIdle EXCEPT
                        !.pc = IF kind \in {"get_version", "get_flash_info"}
                               THEN "accept" ELSE "collect",
                        !.kind = kind,
                        !.sent = <<CmdPayload(QueryCmd(kind))>>,
                        !.event = <<"start">>]
                ELSE [QueryIdle EXCEPT !.pc = "done", !.kind = kind, !.up = FALSE,
                                       !.event = <<"start">>,
                                       !.result = QueryErr("Send")]
    /\ UNCHANGED <<linesVars, dumpVars, wait, transportVars, shell, calc, cli>>

\* the line stream yields a line (lib.rs 216-225, 241-251, 266-273,
\* 291-297, 316-322)
QLine(line) ==
    /\ query.pc \in {"accept", "collect"}
    /\ query.up
    /\ Len(query.got) < MaxQueryLines
    /\ LET q == [query EXCEPT !.got = Append(@, <<query.pc, line>>),
                              !.event = <<query.pc, "line">>]
           p == [q EXCEPT !.parsed = Append(@, line)]
       IN  query' =
             IF ~IsDataLine(line) THEN q
             ELSE IF query.pc = "collect"
             THEN [p EXCEPT !.acc = QueryFold(query.kind, @, line)]
             ELSE IF query.kind = "get_version"
             THEN IF VersionInfo_parse(line).ok
                  THEN [p EXCEPT !.pc = "done",
                                 !.result = QueryOk(VersionInfo_parse(line))]
                  ELSE p
             ELSE IF FlashKind_parse(line).ok
             THEN [p EXCEPT !.pc = "collect",
                            !.sent = Append(@, CmdPayload(GetinfoCmd(FlashKind_parse(line).kind))),
                            !.acc = from_kind(FlashKind_parse(line).kind)]
             ELSE p
    /\ UNCHANGED <<linesVars, dumpVars, wait, transportVars, shell, calc, cli>>

\* no line for TIMEOUT: an error while a line is waited for to accept
\* (lib.rs 227, 253), the end of a collection (lib.rs 275, 299, 324)
QTimeout ==
    /\ query.pc \in {"accept", "collect"}
    /\ query.up
    /\ query' = [query EXCEPT !.pc = "done",
                              !.event = <<query.pc, "timeout">>,
                              !.result = IF query.pc = "accept"
                                         THEN QueryErr("Timeout")
                                         ELSE QueryOk(query.acc)]
    /\ UNCHANGED <<linesVars, dumpVars, wait, transportVars, shell, calc, cli>>

\* the line stream has ended (lib.rs 226, 252, 274, 298, 323)
QEof ==
    /\ query.pc \in {"accept", "collect"}
    /\ ~query.up
    /\ query' = [query EXCEPT !.pc = "done", !.event = <<query.pc, "eof">>,
                              !.result = QueryErr("Eof")]
    /\ UNCHANGED <<linesVars, dumpVars, wait, transportVars, shell, calc, cli>>

\* the transport task ends on a port read error (lib.rs 90-92)
QTransportDies ==
    /\ query.pc \in {"accept", "collect"}
    /\ query.up
    /\ query' = [query EXCEPT !.up = FALSE]
    /\ UNCHANGED <<linesVars, dumpVars, wait, transportVars, shell, calc, cli>>

\* The command-line program (cli main.rs 171-330): run executes one
\* subcommand, main prints its error.  In dump-mtd each partition is dumped
\* by a task of its own, spawned on the single-threaded runtime; the task
\* is modelled by what the loop of run can see of it: the commands it
\* sends to the device, the progress values it sends, and its return.

\* the partition table in its order (the keys of the IndexMap, main.rs 282)
CliParts == <<"boot", "env">>

\* the --part arguments tried: none, one, reversed, unknown, repeated
CliPartArgs ==
    {<<>>, <<"env">>, <<"env", "boot">>, <<"rootfs", "env">>,
     <<"boot", "boot">>}

\* the indices a dump task can have: one per name iterated
CliTaskIds == UNION {1..Len(part) : part \in CliPartArgs} \cup
              (1..Len(CliParts))

CliCmds == {"ports", "login", "info", "dump-env", "dump-mtd"}

\* the commands and the progress values one dump task issues at most
MaxTaskCmds == 2
MaxTaskVals == 2

CliIdle ==
    [pc |-> "idle", cmd |-> "none", names |-> <<>>, i |-> 0,
     tasks |-> <<>>, chan |-> 0, txOpen |-> FALSE, log |-> <<>>,
     stderr |-> <<>>, run |-> "none", failed |-> FALSE, exit |-> -1]

\* parts.get(name) is Some (main.rs 291)
KnownPart(name) == \E k \in 1..Len(CliParts) : CliParts[k] = name

\* the names iterated: the table's keys, or the --part arguments
\* (main.rs 281-285)
CliNames(part) == IF part = <<>> THEN CliParts ELSE part

\* what the process exits with: main returns () after run, whether run
\* returned Ok or Err (main.rs 324-330)
ExitCode(run) == 0

\* run returns Err through a `?` (main.rs 171-321)
RunErr(c) == [c EXCEPT !.pc = "returned", !.run = "Err", !.failed = TRUE]

\* the spawned task of names[i+1], not polled yet (main.rs 296-307)
NewTask(c) ==
    [name |-> c.names[c.i + 1], state |-> "running", sent |-> 0,
     vals |-> 0]

\* a subcommand is given (main.rs 171-172)
CliStart(cmd, part) ==
    /\ cli.pc = "idle"
    /\ cli' = [cli EXCEPT !.pc = "prelude", !.cmd = cmd,
                          !.names = IF cmd = "dump-mtd"
                                    THEN CliNames(part) ELSE <<>>]
    /\ UNCHANGED <<linesVars, dumpVars, wait, transportVars, shell, query,
                   calc>>

\* the operations of the subcommand before the partition loop: every one
\* of them returns from run on an error (main.rs 173-287)
CliPrelude(ok) ==
    /\ cli.pc = "prelude"
    /\ cli' = IF ~ok THEN RunErr(cli)
              ELSE IF cli.cmd = "dump-mtd" THEN [cli EXCEPT !.pc = "next"]
              ELSE [cli EXCEPT !.pc = "returned", !.run = "Ok"]
    /\ UNCHANGED <<linesVars, dumpVars, wait, transportVars, shell, query,
                   calc>>

\* one turn of `for name in names` up to the wait for progress: an unknown
\* name is reported and skipped; else the channel and the file are
\* created, the task is spawned and the bar is made (main.rs 290-309);
\* i counts the names reported as unknown or given a task
CliNext(out) ==
    /\ cli.pc = "next"
    /\ cli.i < Len(cli.names)
    /\ cli' =
         IF ~KnownPart(cli.names[cli.i + 1])
         THEN [cli EXCEPT !.i = @ + 1,
                          !.stderr = Append(@, "Unknown part")]
         ELSE IF out = "create fails"
         THEN RunErr(cli)
         ELSE IF out = "bar fails"
         THEN RunErr([cli EXCEPT !.i = @ + 1,
                                 !.tasks = Append(@, NewTask(cli))])
         ELSE [cli EXCEPT !.i = @ + 1, !.pc = "wait", !.chan = 0,
                          !.txOpen = TRUE,
                          !.tasks = Append(@, NewTask(cli))]
    /\ UNCHANGED <<linesVars, dumpVars, wait, transportVars, shell, query,
                   calc>>

\* the names are exhausted: run returns Ok(()) (main.rs 317-320)
CliLoopEnds ==
    /\ cli.pc = "next"
    /\ cli.i = Len(cli.names)
    /\ cli' = [cli EXCEPT !.pc = "returned", !.run = "Ok"]
    /\ UNCHANGED <<linesVars, dumpVars, wait, transportVars, shell, query,
                   calc>>

\* a spawned task runs only while run is suspended in an await: the
\* creation of the next file or the wait for progress (main.rs 294, 311;
\* the runtime is single-threaded, main.rs 325)
TaskMayRun(c, k) ==
    /\ c.pc \in {"next", "wait"}
    /\ k \in 1..Len(c.tasks)
    /\ c.tasks[k].state = "running"

\* dump_mtd_part of task k sends a command to the device (main.rs 300-302)
TaskCommand(k) ==
    /\ TaskMayRun(cli, k)
    /\ cli.tasks[k].sent < MaxTaskCmds
    /\ cli' = [cli EXCEPT !.tasks[k].sent = @ + 1, !.log = Append(@, k)]
    /\ UNCHANGED <<linesVars, dumpVars, wait, transportVars, shell, query,
                   calc>>

\* dump_mtd_part of task k sends a progress value (lib.rs 474); it is
\* queued in the channel the loop is reading when k is the latest task
TaskProgress(k) ==
    /\ TaskMayRun(cli, k)
    /\ cli.tasks[k].vals < MaxTaskVals
    /\ cli' = [cli EXCEPT !.tasks[k].vals = @ + 1,
                          !.chan = IF k = Len(cli.tasks) THEN @ + 1 ELSE @]
    /\ UNCHANGED <<linesVars, dumpVars, wait, transportVars, shell, query,
                   calc>>

\* dump_mtd_part of task k returns, which drops its progress sender; an
\* error is printed by the task and goes nowhere else (main.rs 300-305)
TaskReturn(k, ok) ==
    /\ TaskMayRun(cli, k)
    /\ cli' = [cli EXCEPT
                 !.tasks[k].state = "returned",
                 !.txOpen = IF k = Len(cli.tasks) THEN FALSE ELSE @,
                 !.failed = IF ok THEN @ ELSE TRUE,
                 !.stderr = IF ok THEN @
                            ELSE Append(@, "Error when dumping mtd part")]
    /\ UNCHANGED <<linesVars, dumpVars, wait, transportVars, shell, query,
                   calc>>

\* progress_rx.recv() returns a value and the bar is set, which may fail
\* (main.rs 311-312)
CliRecv(barOk) ==
    /\ cli.pc = "wait"
    /\ cli.chan > 0
    /\ cli' = IF barOk THEN [cli EXCEPT !.chan = @ - 1]
              ELSE RunErr([cli EXCEPT !.chan = @ - 1])
    /\ UNCHANGED <<linesVars, dumpVars, wait, transportVars, shell, query,
                   calc>>

\* the channel is merely empty; its sender may still be alive
ChannelEmpty(c) == c.chan = 0

\* progress_rx.recv() returns None: the channel is empty and its only
\* sender, moved into dump_mtd_part, is dropped (main.rs 311)
ChannelClosed(c) == c.chan = 0 /\ ~c.txOpen

\* the `while let` ends and the loop goes to the next name (main.rs 311-313)
CliRecvNone ==
    /\ cli.pc = "wait"
    /\ ChannelClosed(cli)
    /\ cli' = [cli EXCEPT !.pc = "next"]
    /\ UNCHANGED <<linesVars, dumpVars, wait, transportVars, shell, query,
                   calc>>

\* main prints the error of run, if any, and returns (main.rs 326-329);
\* the runtime is dropped and no task runs any more
CliExit ==
    /\ cli.pc = "returned"
    /\ cli' = [cli EXCEPT
                 !.pc = "exited",
                 !.stderr = IF cli.run = "Err" THEN Append(@, "Error")
                            ELSE @,
                 !.exit = ExitCode(cli.run)]
    /\ UNCHANGED <<linesVars, dumpVars, wait, transportVars, shell, query,
                   calc>>

\* nothing but the framer and the dump is in use
RestIdle ==
    /\ wait = WaitIdle /\ TransportNew /\ shell = ShellIdle
    /\ query = QueryIdle /\ calc = CalcIdle
    /\ cli = CliIdle

----------------------------------------------------------------------------
(* Specifications                                                           *)

\* the dump of one partition, from the call of dump_mtd_part
Init == FramerNew /\ DumpInit /\ RestIdle

Next ==
    \/ SendCommand
    \/ \E line \in SfLines : SfLine(line)
    \/ SfTimeout
    \/ Eof
    \/ \E line \in device.crcLines : Crc32LineIn(line)
    \/ Crc32Timeout
    \/ \E line \in device.mdLines : \E sink \in SinkOutcomes : MdLineIn(line, sink)
    \/ SendUnblocked
    \/ MdTimeout
    \/ ProgressRecv
    \/ ProgressDrop
    \/ TransportDies
    \/ DeviceDone

Spec == Init /\ [][Next]_vars

\* the line framer over one subscription
InitLines == FramerNew /\ DumpIdle /\ RestIdle

NextLines ==
    \/ \E chunk \in Chunks : Arrive(chunk)
    \/ EndStream
    \/ Tick
    \/ Poll

SpecLines == InitLines /\ [][NextLines]_vars

\* the consumer keeps polling and time passes
FairSpecLines == SpecLines /\ WF_vars(Poll) /\ WF_vars(Tick)

\* the line framer read through per-line waits
NextWait ==
    \/ \E chunk \in Chunks : Arrive(chunk)
    \/ EndStream
    \/ WaitStart
    \/ WaitWake
    \/ Elapse

SpecWait == InitLines /\ [][NextWait]_vars

\* the transport task with its handles and subscriptions
NextTransport ==
    \/ \E ok \in BOOLEAN : PortRead(ok)
    \/ BroadcastResume
    \/ \E outcome \in WriteOutcomes : CtlRecv(outcome)
    \/ CtlClosed
    \/ Subscribe
    \/ \E data \in Payloads : SendRaw(data)
    \/ \E s \in SubIds : SubRecv(s)
    \/ \E s \in SubIds : SubDrop(s)
    \/ HandleClone
    \/ HandleDrop

SpecTransport == InitLines /\ [][NextTransport]_vars

\* the task is scheduled: a branch of its select that stays ready is taken,
\* and a send that can complete does
FairSpecTransport ==
    /\ SpecTransport
    /\ WF_vars(BroadcastResume)
    /\ WF_vars(\E outcome \in WriteOutcomes : CtlRecv(outcome))
    /\ WF_vars(CtlClosed)

\* one handle, its subscriptions and its commands, on a port that takes
\* every byte
NextSubs ==
    \/ \E ok \in BOOLEAN : PortRead(ok)
    \/ BroadcastResume
    \/ CtlRecv("ok")
    \/ Subscribe
    \/ \E cmd \in CmdLines : SendRaw(CmdPayload(cmd))
    \/ \E s \in SubIds : SubRecv(s)
    \/ \E s \in SubIds : SubDrop(s)

SpecSubs == InitLines /\ [][NextSubs]_vars

\* one call of shell_presence
InitShell ==
    /\ FramerNew /\ DumpIdle /\ wait = WaitIdle /\ TransportNew
    /\ query = QueryIdle /\ calc = CalcIdle
    /\ shell = [ShellIdle EXCEPT !.pc = "start"]
    /\ cli = CliIdle

NextShell ==
    \/ ShStart
    \/ \E line \in ShellLines : ShLine(line)
    \/ ShTimeout
    \/ ShEof
    \/ ShTransportDies

SpecShell == InitShell /\ [][NextShell]_vars

\* the parsers and formatters, each applied once to an input
NextCalc ==
    \/ \E f \in SizeForms : \E build \in Builds : CalcSize(f.d \o f.unit \o f.b, f, build)
    \/ \E text \in SizeLiterals : \E build \in Builds : CalcSize(text, <<>>, build)
    \/ \E name \in CmdNames : \E args \in [1..2 -> FormatValues] \cup [1..3 -> FormatValues] :
          CalcFormat(name, args)
    \/ \E f \in KeyForms : CalcKey(f)
    \/ \E n \in 0..MaxParts : \E parts \in [1..n -> MtdParts] : CalcMtdParts(parts)
    \/ \E i \in 1..Len(EnvLines) : CalcEnv(EnvLines[i])
    \/ \E b \in DumpBytes : CalcHexLine(RenderLine(b), b)
    \/ \E line \in {MdLine17, OverflowGapLine, <<"4", "2", "0", "0", "0", "0", "0", "0", ":", CR>>} :
          CalcHexLine(line, <<-1>>)
    \/ \E f \in VersionForms : CalcVersion(f)
    \/ \E info \in FillInfos : \E f \in FillForms : CalcFill(info, f)

SpecCalc == InitLines /\ [][NextCalc]_vars

\* the queries on their own, over the lines the stream may yield
NextQuery ==
    \/ \E kind \in QueryKinds : QStart(kind)
    \/ \E line \in QueryLines : QLine(line)
    \/ QTimeout
    \/ QEof
    \/ QTransportDies

SpecQuery == InitLines /\ [][NextQuery]_vars

\* the command-line program alone
NextCli ==
    \/ \E cmd \in CliCmds : \E part \in CliPartArgs : CliStart(cmd, part)
    \/ \E ok \in BOOLEAN : CliPrelude(ok)
    \/ \E out \in {"ok", "create fails", "bar fails"} : CliNext(out)
    \/ CliLoopEnds
    \/ \E k \in CliTaskIds : TaskCommand(k)
    \/ \E k \in CliTaskIds : TaskProgress(k)
    \/ \E k \in CliTaskIds : \E ok \in BOOLEAN : TaskReturn(k, ok)
    \/ \E barOk \in BOOLEAN : CliRecv(barOk)
    \/ CliRecvNone
    \/ CliExit

SpecCli == InitLines /\ [][NextCli]_vars

----------------------------------------------------------------------------
(* Properties of the dump                                                   *)

\* C1: whenever the dump returns Ok, the sink holds region.size bytes and
\* the CRC-32 of the written bytes is the checksum the device reported
C1_OkMeansComplete ==
    result = Ok =>
        /\ Len(written) = region.size
        /\ HasherFinalize(HasherUpdate(HasherNew, written)) = checksum

\* C2: when the progress receiver is dropped while the dump is streaming
\* (off < region.size) and the command channel is up, Ctrl-C is the last
\* thing sent to the device and the dump returns without an error
C2_CancelStopsCleanly ==
    (pc = "done" /\ cancelled /\ off < region.size /\ transportUp)
        => (sent # <<>> /\ Last(sent) = CtrlC /\ result = Ok)

\* C3 as claimed: the 0x40-byte partition, the crc32 answer
\* `crc32 for 0x42000000 ... 0xdeadbeef`, the four lines written: the dump
\* address is 0x42000000, the last progress value is 64, the result is Ok
C3_HappyPath0x ==
    (device = ScenarioDevice(Crc32Line0x) /\ pc = "done"
        /\ written = HappyData /\ rxOpen)
        => /\ address = 1107296256
           /\ lastProgress = 64
           /\ result = Ok

\* C3: the 0x40-byte partition with the crc32 answer
\* `crc32 for 42000000 ... 4200003f ==> deadbeef`: the dump address is
\* 0x42000000; once the bytes of the four lines are written the dump has
\* reported 64 as its last progress value and returned Ok with off = 64; and
\* it returns Ok only with exactly these 64 bytes written
C3_HappyPathBareHex ==
    (device = ScenarioDevice(Crc32LineBare) /\ pc = "done")
        => /\ address = 1107296256
           /\ (written = HappyData /\ rxOpen)
                 => (result = Ok /\ lastProgress = 64 /\ off = 64)
           /\ result = Ok => (written = HappyData /\ Len(written) = 64)

C3_Witness ==
    /\ device = ScenarioDevice(Crc32LineBare)
    /\ pc = "done"
    /\ crcLine = Crc32LineBare
    /\ written = HappyData
    /\ lastProgress = 64
    /\ result = Ok

\* C4: when the loop has ended with all region.size bytes received and the
\* final checks run with a host CRC-32 that differs from the device's
\* checksum, the dump fails with the checksum mismatch, and all region.size
\* bytes are in the sink by then; a dump whose receiver was not dropped
\* never fails with the mismatch before that
C4_MismatchAfterAllBytes ==
    /\ (pc = "done" /\ checked /\ off = region.size
            /\ HasherFinalize(hasher) # checksum)
          => (result = Err("ChecksumMismatch") /\ Len(written) = region.size)
    /\ (result = Err("ChecksumMismatch") /\ ~cancelled)
          => Len(written) = region.size

C4_Witness ==
    /\ pc = "done"
    /\ region.size = 64
    /\ crcLine = Crc32LineBare
    /\ written = parse_line(HappyLine1).data \o parse_line(FlippedLine2).data
                    \o parse_line(HappyLine3).data \o parse_line(HappyLine4).data
    /\ ~cancelled
    /\ result = Err("ChecksumMismatch")

\* C5: the loop reads a line only while off < region.size, so off passes
\* region.size by less than one line; when the final checks run with
\* off > region.size the dump fails with the out-of-region error that
\* reports off - region.size, and it never returns Ok with off > region.size
C5_OutOfRegion ==
    /\ pc = "md" => off < region.size
    /\ off > region.size => off - region.size < MAX_LINE_BYTES
    /\ (pc = "done" /\ checked /\ off > region.size)
          => result = [kind |-> "OutOfRegion", by |-> off - region.size]
    /\ off > region.size => result # Ok

C5_Witness ==
    /\ pc = "done"
    /\ region.size = 1
    /\ off = 2
    /\ written = <<1, 2>>
    /\ result = [kind |-> "OutOfRegion", by |-> 1]

----------------------------------------------------------------------------
(* Properties of the line framer                                            *)

\* splitting a byte sequence at every element of seps, written over the
\* positions of the separators (the reference the framer is compared with)
SplitOn(seps, s) ==
    LET cuts == {i \in 1..Len(s) : s[i] \in seps}
        starts == {1} \cup {i + 1 : i \in cuts}
        EndOf(b) == IF \E i \in cuts : i >= b
                    THEN (CHOOSE i \in cuts : i >= b /\ \A j \in cuts : j >= b => i <= j) - 1
                    ELSE Len(s)
        RECURSIVE Pieces(_)
        Pieces(S) ==
            IF S = {} THEN <<>>
            ELSE LET b == CHOOSE x \in S : \A y \in S : x <= y
                 IN  <<SubSeq(s, b, EndOf(b))>> \o Pieces(S \ {b})
    IN  Pieces(starts)

Bytes(s) == SelectSeq(s, LAMBDA c : c # CUT)

Quiet == stream = <<>> /\ leftover = <<>>

\* C6 as claimed (for at least one chunk, none of them empty): for every
\* chunking, once the upstream has ended or gone idle, the emitted lines are
\* the split of the concatenation on \n
C6_LinesEqualSplit ==
    (nTaken > 0 /\ ~tookEmpty /\ Quiet)
        => emitted = SplitOn({LF}, Bytes(consumed))

\* C6: when at least one chunk was delivered and no retained segment was
\* flushed by the timer before a later chunk was taken, the emitted lines,
\* once the upstream has ended or gone idle, are the split of the
\* concatenation of the chunks on \n
C6_LinesEqualSplitNoEarlyFlush ==
    (nTaken > 0 /\ Quiet /\ \A i \in 1..Len(consumed) : consumed[i] # CUT)
        => emitted = SplitOn({LF}, consumed)

C6_Witness ==
    /\ nTaken = 3
    /\ Quiet
    /\ consumed = <<"a", "a", CR, LF, "a", LF, "a">>
    /\ emitted = << <<"a", "a", CR>>, <<"a">>, <<"a">> >>

\* C7: while the upstream is open, a poll emits the open tail through the
\* timer branch only when RX_DELAY has passed since the last chunk was taken,
\* never in the poll that took a chunk
C7_TailOnlyAfterQuiescence ==
    (lastPoll.via = "timer" /\ ~streamEnded)
        => (~lastPoll.took /\ sinceChunk >= RX_DELAY)

\* C8: a retained segment is eventually returned as a line to a consumer
\* that keeps polling, even when no \n arrives (an entry leaves leftover only
\* by being returned from poll_next)
C8_RetainedSegmentDelivered == (leftover # <<>>) ~> (leftover = <<>>)

C8_Witness ==
    /\ lastPoll.via = "timer"
    /\ ~lastPoll.took
    /\ ~streamEnded
    /\ emitted # <<>>
    /\ Last(emitted) = <<"a">>
    /\ Bytes(consumed) = <<"a">>

\* C9: no emitted or buffered line holds a \n; the entries, in order, are
\* exactly the pieces of the input between its \n bytes (and the points where
\* the tail was flushed), so a \r before a \n is the last byte of its line
C9_LinesAreInputPieces ==
    /\ \A i \in 1..Len(emitted) : \A j \in 1..Len(emitted[i]) : emitted[i][j] # LF
    /\ \A i \in 1..Len(leftover) : \A j \in 1..Len(leftover[i]) : leftover[i][j] # LF
    /\ emitted \o leftover =
          IF nTaken = 0 THEN <<>> ELSE SplitOn({LF, CUT}, consumed)

C9_Witness ==
    /\ consumed = <<"a", CR, LF, "a">>
    /\ emitted = << <<"a", CR>> >>
    /\ leftover = << <<"a">> >>

\* C10: taking an empty chunk changes nothing: the timer is not reset, the
\* buffer gets no entry and no line is emitted
C10_EmptyChunkNoEffect ==
    [][(stream # <<>> /\ Head(stream) = <<>> /\ nTaken' = nTaken + 1)
          => (leftover' = leftover /\ sleep' = sleep /\ emitted' = emitted)]_vars

----------------------------------------------------------------------------
(* Properties of the per-line wait                                          *)

\* C11: RX_DELAY < TIMEOUT, and a wait that starts while the framer holds
\* entries and the upstream is drained, during which no chunk arrives, never
\* ends by the timeout: it yields the oldest entry (the unterminated segment
\* when that is the only one) as a line, within RX_DELAY of its start when
\* the task is polled as soon as the framer's timer fires
C11_WaitYieldsSegment ==
    /\ RX_DELAY < TIMEOUT
    /\ (wait.state \notin {"idle", "waiting"} /\ wait.startLeftover # <<>>
            /\ wait.startQuiet /\ nChunks = wait.startChunks)
          => /\ wait.state = "line"
             /\ wait.out = <<Head(wait.startLeftover)>>
             /\ ~wait.late => TIMEOUT - wait.left <= RX_DELAY

C11_Witness ==
    /\ wait.state = "line"
    /\ wait.startLeftover = << <<"a">> >>
    /\ wait.startQuiet
    /\ nChunks = wait.startChunks
    /\ ~streamEnded
    /\ wait.out = << <<"a">> >>
    /\ wait.left = TIMEOUT - RX_DELAY
    /\ lastPoll.via = "timer"

----------------------------------------------------------------------------
(* Properties of the transport task                                         *)

InSeq(x, q) == \E i \in 1..Len(q) : q[i] = x

RECURSIVE Flatten(_)
Flatten(ss) == IF ss = <<>> THEN <<>> ELSE Head(ss) \o Flatten(Tail(ss))

\* C12: when the task has taken the Out message of a command, every
\* subscription obtained before that command was sent is in the slab already
\* (its Sub message was processed first), and as long as its receiver lives
\* every chunk read since then is in the hands of its holder, in its channel,
\* or is the chunk whose broadcast is on its way to it
C12_SubscriptionSeesResponse ==
    \A k \in 1..outsTaken : \A s \in outLog[k].subs :
        /\ insertedAt[s] # -1
        /\ alive[s] =>
              \A c \in (insertedAt[s] + 1)..reads :
                  \/ InSeq(c, seen[s] \o queue[s])
                  \/ c = reads /\ s \in todo

C12_Witness ==
    /\ outsTaken = 1
    /\ outLog[1].subs = {1}
    /\ wire = <<"c", CR>>
    /\ insertedAt[1] = 0
    /\ alive[1]
    /\ reads = 2
    /\ seen[1] = <<1, 2>>

\* C13: what a subscription's holder has taken followed by what waits in its
\* channel is strictly increasing in the order of the port's reads (no
\* duplicate, no reordering) and holds only chunks read after the
\* subscription entered the slab
C13_ChunksInReadOrder ==
    \A s \in SubIds :
        LET q == seen[s] \o queue[s]
        IN  /\ \A i \in 1..Len(q) : insertedAt[s] # -1 /\ insertedAt[s] < q[i]
                                      /\ q[i] <= reads
            /\ \A i \in 1..Len(q) : \A j \in 1..Len(q) : i < j => q[i] < q[j]

C13_Witness ==
    /\ insertedAt[1] = 0
    /\ insertedAt[2] = 1
    /\ seen[1] = <<1, 2>>
    /\ seen[2] = <<2>>

\* C14: the task never waits in a send to a subscription whose receiver is
\* alive and whose channel is full
C14_FullQueueDoesNotStall ==
    ~(task = "broadcast" /\ alive[blockedOn]
        /\ Len(queue[blockedOn]) = SubCap)

\* C15: the bytes on the port are the payloads of the Out messages taken so
\* far, each complete, in the order they were sent
C15_PayloadsWrittenInOrder ==
    wire = Flatten([k \in 1..outsTaken |-> outLog[k].data])

\* C16: the task has ended only by a read error or with every handle
\* dropped and the mailbox drained, and once every handle is dropped it
\* eventually ends
C16_TerminatesExactly ==
    /\ [](task = "ended" => endCause \in {"read error", "mailbox closed"})
    /\ [](endCause = "mailbox closed" => handles = 0)
    /\ (handles = 0) ~> (task = "ended")

\* C17: after a failed write to the port the task has stopped
C17_WriteErrorFatal == writeFailed => task = "ended"

----------------------------------------------------------------------------
(* Properties of shell_presence                                             *)

\* the lines received so far that parse as an autoboot-stop prompt
StopPrompts ==
    {i \in 1..Len(shell.got) :
        IsUtf8(shell.got[i][2]) /\ parse_stop_autoboot(shell.got[i][2]).ok}

\* C18: when shell_presence has returned a prompt, the key of every
\* autoboot-stop prompt it received is among the payloads it sent; with the
\* lines `Hit any key to stop autoboot:  1\r` and `hisilicon # ` it has sent
\* Ctrl-C and then 'a' and has returned `hisilicon # `
C18_AutobootKeySent ==
    /\ (shell.pc = "done" /\ shell.result.kind = "Ok")
          => \A i \in StopPrompts :
                InSeq(Encode(parse_stop_autoboot(shell.got[i][2]).key), shell.sent)
    /\ (shell.pc = "done" /\ Len(shell.got) = 2
            /\ shell.got[1][2] = BannerAnyKey /\ shell.got[2][2] = PromptLine)
          => /\ shell.result = ShellOk(PromptLine)
             /\ \E i \in 1..Len(shell.sent) : \E j \in 1..Len(shell.sent) :
                    i < j /\ shell.sent[i] = CtrlC /\ shell.sent[j] = <<"a">>

\* C19: the line shell_presence returns is the last line it received, does
\* not end in \r, and no earlier line of the same phase lacked the \r
C19_PromptIsFirstOpenLine ==
    shell.result.kind = "Ok" =>
        /\ shell.got # <<>>
        /\ Last(shell.got)[2] = shell.result.line
        /\ ~ends_with_cr(shell.result.line)
        /\ \A i \in 1..(Len(shell.got) - 1) :
              shell.got[i][1] = Last(shell.got)[1] => ends_with_cr(shell.got[i][2])

C19_Witness ==
    /\ shell.result = ShellOk(PromptLine)
    /\ shell.got = << <<"phase1", VersionLine>>, <<"phase2", BannerAnyKey>>,
                      <<"phase3", PromptLine>> >>

\* C20: a timeout in the first prompt-reading phase leads to the
\* interception loop without a result; a timeout in the last phase fails
\* with the prompt-await timeout; the end of the line stream in either
\* prompt-reading phase fails with the EOF error
C20_TimeoutAndEof ==
    /\ shell.event = <<"phase1", "timeout">>
          => (shell.pc = "phase2" /\ shell.result = ShellRunning)
    /\ shell.event = <<"phase3", "timeout">>
          => (shell.pc = "done" /\ shell.result = ShellErr("PromptTimeout"))
    /\ shell.event \in {<<"phase1", "eof">>, <<"phase3", "eof">>}
          => (shell.pc = "done" /\ shell.result = ShellErr("Eof"))

C20_Witness ==
    /\ shell.event = <<"phase3", "timeout">>
    /\ shell.result = ShellErr("PromptTimeout")
    /\ shell.got = << <<"phase2", BannerAnyKey>> >>
    /\ shell.sent = <<CtrlC, <<CR>>, CtrlC, <<"a">> >>

----------------------------------------------------------------------------
(* Properties of the parsers and formatters                                 *)

\* the u64 of a number below 2^31
U64Of(n) == [i \in 1..16 |-> IF i < 9 THEN 0 ELSE (n \div (16 ^ (16 - i))) % 16]

\* the value of a string of decimal digits
RECURSIVE DecValue(_)
DecValue(d) ==
    IF d = <<>> THEN 0
    ELSE DecValue(SubSeq(d, 1, Len(d) - 1)) * 10 + hex_dig(d[Len(d)])

\* C27: size_u64 of a 0x-prefixed literal is its hex value; of decimal
\* digits d with an optional k or m and an optional b, in any case, it is
\* value(d) times 1, 1024 or 1048576
C27_SizeValues ==
    calc.fn = "size" =>
        /\ calc.form # <<>> =>
              calc.out = [kind |-> "ok", u32 |-> TRUE,
                          val |-> U64Of(DecValue(calc.form.d)
                                   * (CASE calc.form.unit \in {<<"k">>, <<"K">>} -> 1024
                                        [] calc.form.unit \in {<<"m">>, <<"M">>} -> 1048576
                                        [] OTHER -> 1))]
        /\ calc.in = <<"0", "x", "1", "0", "0">> => calc.out.val = U64Of(256)
        /\ calc.in = <<"6", "4", "K", "B">> => calc.out.val = U64Of(65536)
        /\ calc.in = <<"8", "M">> => calc.out.val = U64Of(8388608)
        /\ calc.in = <<"1", "6">> => calc.out.val = U64Of(16)

\* C28: a literal whose value does not fit in 64 bits is a parse error, and
\* get_u32 fails for a value above 2^32 - 1
C28_OverflowIsError ==
    calc.fn = "size" =>
        /\ calc.lost => calc.out.kind = "error"
        /\ (calc.out.kind = "ok" /\ \E i \in 1..8 : calc.out.val[i] # 0)
              => ~calc.out.u32

\* C29: every numeric argument of sf read, crc32 and md.b is sent as 0x and
\* eight lower-case hex digits
C29_ArgsEightDigits ==
    calc.fn = "format" =>
        LET w == Len(calc.in.name)
        IN  /\ Len(calc.out) = w + 11 * Len(calc.in.args)
            /\ SubSeq(calc.out, 1, w) = calc.in.name
            /\ \A a \in 1..Len(calc.in.args) :
                  SubSeq(calc.out, w + 11 * a - 10, w + 11 * a)
                    = <<" ", "0", "x">>
                        \o [k \in 1..8 |-> HexDigits[calc.in.args[a][8 + k] + 1]]

\* C30: encode gives the byte L - 0x40 for Ctrl(L), 'a' for Any and the
\* letter for Key; a prompt that names Ctrl and a letter of either case
\* parses to Ctrl of the upper-case letter
C30_KeyEncoding ==
    calc.fn = "key" =>
        LET i == CHOOSE k \in 1..26 : calc.form.letter \in {UpperLetters[k], LowerLetters[k]}
        IN  /\ calc.out.ok
            /\ calc.form.key \in {"ctrl-", "Ctrl+"} =>
                  /\ calc.out.key = <<"Ctrl", 64 + i>>
                  /\ calc.out.bytes = <<"raw", i>>
            /\ calc.form.key = "any" =>
                  calc.out.key = <<"Any">> /\ calc.out.bytes = <<"a">>
            /\ calc.form.key = "" =>
                  /\ calc.out.key = <<"Key", calc.form.letter>>
                  /\ calc.out.bytes = <<calc.form.letter>>

C30_Witness ==
    /\ calc.fn = "key"
    /\ calc.in = <<"H", "i", "t", " ", "C", "t", "r", "l", "+", "c", " ", "t", "o", " ", "s", "t", "o", "p", " ", "a", "u", "t", "o", "b", "o", "o", "t">>
    /\ calc.out.key = <<"Ctrl", 67>>
    /\ calc.out.bytes = <<"raw", 3>>

\* C24: parse_line returns at most 16 bytes; of a line with more than 16
\* pairs separated by single spaces it returns the first 16 and does not fail
C24_AtMostSixteen ==
    calc.fn = "hexdump" =>
        /\ Len(calc.out.data) <= 16
        /\ calc.in = MdLine17 =>
              calc.out = [ok |-> TRUE, data |-> [i \in 1..16 |-> 1]]

\* C25: parse_line of the line rendered from 0..16 bytes, with its padding
\* and its gutter, returns these bytes; with nothing after the colon it
\* returns no bytes and no error
C25_RenderedBytesParsed ==
    calc.fn = "hexdump" =>
        /\ calc.bytes # <<-1>> => calc.out = [ok |-> TRUE, data |-> calc.bytes]
        /\ calc.in = <<"4", "2", "0", "0", "0", "0", "0", "0", ":", CR>> => calc.out = [ok |-> TRUE, data |-> <<>>]

C25_Witness ==
    /\ calc.fn = "hexdump"
    /\ Len(calc.bytes) = 16
    /\ calc.bytes[1] = 97
    /\ calc.in[Len(calc.in) - 16] = "a"
    /\ calc.out.data = calc.bytes

\* the key and the value each line of EnvLines stands for, <<>> for the
\* line that has no `=`
EnvExpect ==
    <<<<<<"b", "a", "u", "d", "r", "a", "t", "e">>, <<"1", "1", "5", "2", "0", "0">>>>,
      <<<<"b", "a", "u", "d", "r", "a", "t", "e">>, <<"9", "6", "0", "0">>>>,
      <<<<"b", "o", "o", "t", "a", "r", "g", "s">>, <<"a", "=", "b", " ", "c">>>>,
      <<<<"b", "o", "o", "t", "d", "e", "l", "a", "y">>, <<"0">>>>,
      <<>>,
      <<<<"-", ">", " ", "s", "t", "a", "r", "t">>, <<"0", "x", "4", "0", "0", "0", "0", "0", "0", "0">>>>>>

EnvPair(line) == EnvExpect[CHOOSE i \in 1..Len(EnvLines) : EnvLines[i] = line]

\* C26: the Variables hold each distinct key once, in the order of its first
\* insertion, with the value of the last line that wrote it, the value whole
\* up to the \r and both trimmed on the right; a line that does not parse
\* adds nothing
C26_EnvFold ==
    calc.fn = "env" =>
        LET h == calc.in
            ok == {i \in 1..Len(h) : EnvPair(h[i]) # <<>>}
            firsts == {i \in ok : \A j \in ok : j < i => EnvPair(h[j])[1] # EnvPair(h[i])[1]}
        IN  /\ Len(calc.out) = Cardinality(firsts)
            /\ \A i \in firsts :
                  LET p == 1 + Cardinality({j \in firsts : j < i})
                      last == CHOOSE j \in ok :
                                /\ EnvPair(h[j])[1] = EnvPair(h[i])[1]
                                /\ \A l \in ok : EnvPair(h[l])[1] = EnvPair(h[i])[1] => l <= j
                  IN  calc.out[p] = <<EnvPair(h[i])[1], EnvPair(h[last])[2]>>

C26_Witness ==
    /\ calc.fn = "env"
    /\ calc.in = <<EnvLines[1], EnvLines[3], EnvLines[2]>>
    /\ calc.out = << <<<<"b", "a", "u", "d", "r", "a", "t", "e">>, <<"9", "6", "0", "0">>>>,
                     <<<<"b", "o", "o", "t", "a", "r", "g", "s">>, <<"a", "=", "b", " ", "c">>>> >>

\* the sum of the sizes of the first n partitions
RECURSIVE SizeSum(_, _)
SizeSum(parts, n) == IF n = 0 THEN 0 ELSE SizeSum(parts, n - 1) + parts[n].size[2]

\* C23: the table of parse_mtd_parts lists the partitions in the order of
\* the text, the i-th base is the sum of the sizes before it (the first is
\* 0), and a list without partitions gives an empty table
C23_TableContiguous ==
    calc.fn = "mtd" =>
        /\ calc.out.ok
        /\ Len(calc.out.table) = Len(calc.parts)
        /\ \A i \in 1..Len(calc.out.table) :
              calc.out.table[i] = <<calc.parts[i].name,
                                    [base |-> SizeSum(calc.parts, i - 1),
                                     size |-> calc.parts[i].size[2]]>>

----------------------------------------------------------------------------
(* Properties of the queries                                                *)

\* the lines of a phase that end in \r, in the order received
CrLines(got, phase) ==
    LET sel == SelectSeq(got, LAMBDA e : e[1] = phase /\ ends_with_cr(e[2]))
    IN  [i \in 1..Len(sel) |-> sel[i][2]]

\* the fold of a collecting query over lines; a line that is no text or
\* that its parser refuses adds nothing
RECURSIVE FoldLines(_, _, _)
FoldLines(kind, acc, lines) ==
    IF lines = <<>> THEN acc
    ELSE LET rest == FoldLines(kind, acc, SubSeq(lines, 1, Len(lines) - 1))
             line == lines[Len(lines)]
         IN  IF ~IsUtf8(line) THEN rest
             ELSE IF kind = "get_flash_info"
             THEN (IF fill_parse(rest, line).ok THEN fill_parse(rest, line).info ELSE rest)
             ELSE (IF extend_parse_env(rest, line).ok
                   THEN extend_parse_env(rest, line).vars ELSE rest)

\* what a collection starts from: empty Variables, or the FlashInfo of the
\* kind the accepted line names
FoldStart(q) ==
    IF q.kind # "get_flash_info" THEN <<>>
    ELSE LET a == SelectSeq(q.got, LAMBDA e : e[1] = "accept")
         IN  from_kind(FlashKind_parse(a[Len(a)][2]).kind)

\* C21: a per-line timeout of a collecting query returns Ok with the fold of
\* exactly the \r-terminated lines received in the collection; a per-line
\* timeout of an accepting query is an error; no line without a trailing \r
\* is handed to a parser
C21_TimeoutAndDataLines ==
    /\ query.event = <<"collect", "timeout">> =>
          query.result = QueryOk(FoldLines(query.kind, FoldStart(query),
                                           CrLines(query.got, "collect")))
    /\ query.event = <<"accept", "timeout">> =>
          query.pc = "done" /\ query.result.kind = "err"
    /\ \A i \in 1..Len(query.parsed) : ends_with_cr(query.parsed[i])

\* get_environ has read a data line, an unterminated line with a `=` and the
\* prompt, and its timeout returns the one variable of the data line
C21_Witness ==
    /\ query.kind = "get_environ"
    /\ query.event = <<"collect", "timeout">>
    /\ query.got = << <<"collect", EnvLines[2]>>, <<"collect", EnvLines[4]>>,
                      <<"collect", PromptLine>> >>
    /\ query.result = QueryOk(<< <<<<"b", "a", "u", "d", "r", "a", "t", "e">>,
                                   <<"9", "6", "0", "0">>>> >>)

\* C22: a query that fails drops its line stream and nothing else: the drop
\* leaves the task's state, the control mailbox and the handles as they are,
\* the task ends only on a port read error or with no handle left, and a
\* task waiting in the send to the dropped stream can go on
C22_FailedQueryLeavesSession ==
    /\ [][(\E s \in SubIds : alive[s] /\ ~alive'[s]) =>
                /\ task' = task /\ endCause' = endCause
                /\ mailbox' = mailbox /\ handles' = handles
                /\ subscribers' = subscribers]_vars
    /\ [](task = "ended" =>
                \/ endCause = "read error"
                \/ endCause = "mailbox closed" /\ handles = 0)
    /\ []((task = "broadcast" /\ ~alive[blockedOn]) => ENABLED BroadcastResume)

\* the first query got no answer and dropped its stream; the second one
\* subscribed, its command is on the port and it has taken a chunk read
\* after it subscribed
C22_Witness ==
    /\ task = "select"
    /\ nSubs = 2
    /\ ~alive[1] /\ insertedAt[1] # -1 /\ seen[1] = <<>>
    /\ alive[2] /\ insertedAt[2] # -1
    /\ outsTaken = 2
    /\ outLog[1].subs = {1}
    /\ outLog[2].subs = {1, 2}
    /\ wire = outLog[1].data \o outLog[2].data
    /\ seen[2] # <<>>

----------------------------------------------------------------------------
(* Properties of the version and flash-info parsers                         *)

\* C31: every VersionInfo that VersionInfo::parse returns has a month from 1
\* to 12; a banner with month 0 or above 12 is refused
C31_MonthInRange ==
    (calc.fn = "version" /\ calc.out.ok) => calc.out.month \in 1..12

\* C32: fill_parse never changes kind; a Block/Chip line is accepted and
\* changes only block, size and count (count 1 without `*n`), an ID line
\* only id, a Name line only name; any other line is refused and leaves the
\* FlashInfo as it was
C32_FillFrame ==
    calc.fn = "fill" =>
        LET i == calc.in.info
            o == calc.out.info
            f == calc.form
        IN  /\ o.kind = i.kind
            /\ f.is = "Size" =>
                  /\ calc.out.ok
                  /\ o.id = i.id /\ o.name = i.name
                  /\ o.count = f.count
                  /\ ~f.star => o.count = 1
            /\ f.is = "Id" => calc.out.ok /\ o = [i EXCEPT !.id = f.id]
            /\ f.is = "Name" => calc.out.ok /\ o = [i EXCEPT !.name = f.name]
            /\ f.is = "Other" => ~calc.out.ok /\ o = i

\* a FlashInfo with every field set took a Block/Chip line without `*n`:
\* count is 1, block and size are the line's, id and name are kept
C32_Witness ==
    /\ calc.fn = "fill"
    /\ calc.form.is = "Size" /\ ~calc.form.star
    /\ calc.in.info.count = 3
    /\ calc.out.ok
    /\ calc.out.info =
          [kind |-> "Nand", block |-> <<0, 0, 0, 1, 0, 0, 0, 0>>,
           size |-> <<0, 0, 8, 0, 0, 0, 0, 0>>, count |-> 1, id |-> <<1, 2, 3>>,
           name |-> <<"Z", "Z">>]

----------------------------------------------------------------------------
(* Properties of the sweep, the login and the dump                          *)

\* C34: the step that reads a chunk first evicts the subscriptions whose
\* receiver is gone, and the chunk goes only to subscriptions that were in
\* the slab with a live receiver at that sweep; the step that processes a Sub
\* message leaves in the slab the new subscription and those whose receiver
\* was alive at its sweep, nothing else
C34_SweepBeforeBroadcastAndInsert ==
    /\ [][reads' = reads + 1 =>
            /\ subscribers' = {s \in subscribers : alive[s]}
            /\ todo' \subseteq subscribers'
            /\ \A s \in SubIds :
                  queue'[s] # queue[s] => s \in subscribers /\ alive[s]]_vars
    /\ [][\A n \in SubIds :
            insertedAt'[n] # insertedAt[n] =>
                subscribers' = {s \in subscribers : alive[s]} \cup {n}]_vars

\* subscription 1 was in the slab, its receiver was dropped and a sweep has
\* evicted it; the chunk read last went to subscription 2 only
C34_Witness ==
    /\ task = "select"
    /\ insertedAt[1] # -1 /\ ~alive[1]
    /\ insertedAt[2] # -1 /\ alive[2]
    /\ subscribers = {2}
    /\ reads = 2
    /\ seen[1] = <<1>>
    /\ seen[2] \o queue[2] = <<2>>

\* the autoboot-stop prompts among the start-up lines, and the payload of
\* the key each asks for
StopKey(line) ==
    CASE line = BannerAnyKey -> <<"a">>
      [] line = BannerCtrlC -> <<"raw", 3>>
      [] line = BannerKeyOpen -> <<"d">>
      [] OTHER -> <<>>

SentNames ==
    LET c == SelectSeq(sent, LAMBDA x : x # CtrlC)
    IN  [i \in 1..Len(c) |-> c[i][1]]

\* C35: dump_mtd_part sends `sf probe 0`, `sf read`, `crc32`, `md.b` in this
\* order, `md.b` only after the crc32 result line was received, and each
\* command only when the device is not executing an earlier one
C35_CommandsAfterCompletion ==
    /\ [](SentNames = SubSeq(<<"sf probe 0", "sf read", "crc32", "md.b">>,
                             1, Len(SentNames)))
    /\ [](Len(SentNames) = 4 => crcLine # <<>>)
    /\ [][(Len(sent') > Len(sent) /\ Last(sent') # CtrlC) => busy = "none"]_vars

\* what each console line of the md.b phase is: the echo, a line without \r,
\* a line that is not text, a line that is no hex dump, or a hex-dump line
\* with its number of bytes
MdExpect(line) ==
    CASE line = MdEchoLine -> [is |-> "echo", n |-> 0]
      [] line = PromptLine -> [is |-> "open", n |-> 0]
      [] line = NonUtf8Line -> [is |-> "notext", n |-> 0]
      [] line = GarbageLine -> [is |-> "nodump", n |-> 0]
      [] line = MdLine0 -> [is |-> "bytes", n |-> 0]
      [] line = MdLine01 -> [is |-> "bytes", n |-> 1]
      [] line = MdLine0102 -> [is |-> "bytes", n |-> 2]
      [] line = MdLine17 -> [is |-> "bytes", n |-> 17]
      [] OTHER -> [is |-> "bytes", n |-> 16]

\* C39: the dump loop waits for a line only while off < region.size; a line
\* without \r ends the dump with the end-of-dump error, a per-line timeout
\* with the dump-timeout error, a \r-terminated line that is not md.b's echo
\* and is no hex dump (or no text) with an error; the echo changes nothing;
\* off advances only by the bytes of a hex-dump line of at most 16 bytes
C39_DumpLoopLines ==
    /\ [](pc = "md" => off < region.size)
    /\ []((mdIn.is = "line" /\ MdExpect(mdIn.line).is = "open") =>
            pc = "done" /\ result = Err("EndOfDump"))
    /\ [](mdIn.is = "timeout" => pc = "done" /\ result = Err("DumpTimeout"))
    /\ []((mdIn.is = "line" /\ MdExpect(mdIn.line).is = "nodump") =>
            pc = "done" /\ result = Err("HexDumpParse"))
    /\ []((mdIn.is = "line" /\ MdExpect(mdIn.line).is = "notext") =>
            pc = "done" /\ result = Err("Utf8"))
    /\ [][(mdIn' # mdIn /\ mdIn'.is = "line" /\ MdExpect(mdIn'.line).is = "echo") =>
            UNCHANGED <<pc, result, off, written, hasher, progress>>]_vars
    /\ [][off' # off =>
            /\ mdIn'.is = "line" /\ MdExpect(mdIn'.line).is = "bytes"
            /\ off' = off + MdExpect(mdIn'.line).n
            /\ MdExpect(mdIn'.line).n <= MAX_LINE_BYTES
            /\ Len(written') = off']_vars

\* one byte was dumped, then the prompt came without \r: the dump has ended
\* with the end-of-dump error
C39_Witness ==
    /\ region.size = 2
    /\ mdIn = [is |-> "line", line |-> PromptLine]
    /\ off = 1
    /\ written = <<1>>
    /\ pc = "done"
    /\ result = Err("EndOfDump")

\* C38: every value put on the progress channel is the number of bytes
\* written to the sink so far and is not below the value before it; a data
\* line that advances off puts one value (at once, or when the full channel
\* has room again); and when the dump of a partition with bytes returns Ok
\* the last value is region.size
C38_ProgressValues ==
    /\ [][Len(progress') > Len(progress) =>
            /\ progress' = Append(progress, Len(written'))
            /\ lastProgress <= Len(written')
            /\ lastProgress' = Len(written')]_vars
    /\ [][(off' # off /\ rxOpen) =>
            \/ progress' = Append(progress, off')
            \/ pc' = "send" /\ Len(progress) = PROGRESS_CAP]_vars
    /\ []((result = Ok /\ region.size > 0) => lastProgress = region.size)


\* the lines of stderr that report a failure
ErrorLines(c) == SelectSeq(c.stderr, LAMBDA l : l # "Unknown part")

\* C33: the process exits with code 0 only when the requested operation
\* succeeded; when an operation fails, a partition dump inside its task
\* included, one error line is printed and the exit code is not 0
C33_ExitCodeTellsSuccess ==
    cli.pc = "exited" =>
        /\ cli.exit = 0 => ~cli.failed
        /\ cli.failed => cli.exit # 0 /\ Len(ErrorLines(cli)) = 1

\* the dump tasks that have not returned
RunningTasks(c) == {k \in 1..Len(c.tasks) : c.tasks[k].state = "running"}

\* C36: in dump-mtd the task of the next partition is spawned only after
\* the dump_mtd_part of the previous one has returned, so no two tasks
\* ever send commands to the device in turns, and the partitions are
\* dumped in the order of the table or of the --part arguments
C36_OneDumpTaskAtATime ==
    /\ Cardinality(RunningTasks(cli)) <= 1
    /\ cli.pc = "next" => RunningTasks(cli) = {}
    /\ \A k \in 1..(Len(cli.log) - 1) : cli.log[k] <= cli.log[k + 1]
    /\ [k \in 1..Len(cli.tasks) |-> cli.tasks[k].name]
         = SelectSeq(SubSeq(cli.names, 1, cli.i), KnownPart)

\* two partitions given in reverse table order were dumped one after the
\* other, each task sending its commands, and the program has exited
C36_Witness ==
    /\ cli.pc = "exited"
    /\ cli.names = <<"env", "boot">>
    /\ Len(cli.tasks) = 2
    /\ cli.tasks[1].name = "env" /\ cli.tasks[2].name = "boot"
    /\ RunningTasks(cli) = {}
    /\ cli.log = <<1, 1, 2, 2>>
    /\ cli.run = "Ok"

====
